---- MODULE Spec2Model ----
(***************************************************************************)
(* State-machine model of smart-news-ml: the predictor registry, the       *)
(* traffic router (A/B traffic distribution), the predictor runtime        *)
(* (BasePredictor), the event bus and the article service with its         *)
(* prediction store.  Every coroutine is cut at its awaits: one action is  *)
(* the code between two suspension points.                                 *)
(***************************************************************************)
EXTENDS Integers, Sequences, FiniteSets, Bags, TLC

(***************************************************************************)
(* Bounds of the model and program constants.                              *)
(***************************************************************************)
\* number of admin traffic calls made one after the other in one behaviour
MaxCalls == 2
\* number of admin traffic calls made in one behaviour when they may overlap
MaxRaceCalls == 2
\* number of create_predictor calls made in one behaviour
MaxCreates == 3
\* number of calls (setup, forward, load_predictor, manual_unload) made on the runtime
MaxRuntimeCalls == 4
\* predictor_version of the runtime
RuntimeVersion == 1
\* Settings.MAX_TRAFFIC_THRESHOLD
MAX_TRAFFIC_THRESHOLD == 50
\* shift_newest_predictor_traffic adds 5 points per call
SHIFT_STEP == 5

\* batch_size of the registered queue (setup.py registers it with 10)
BatchSize == 2
\* number of items pushed to the broker in one behaviour
MaxPushed == 3
\* number of broker pops that fail in one behaviour
MaxPopErrors == 1
\* number of process_articles calls made in one behaviour
MaxBatches == 2
\* number of articles in one batch
MaxArticles == 2
\* number of forward calls that raise in one behaviour
MaxForwardErrors == 1
\* number of start() calls and of stop() calls on a stopped bus in one behaviour
MaxLifecycleCalls == 3
\* number of forward calls handlers start around the shutdown in one behaviour
MaxShutdownForwards == 2

\* concurrent callers of the admin traffic operations
Callers == {1, 2}
\* concurrent callers of create_predictor
Creators == {1, 2}
\* versions a creator may ask for
CreateVersions == {1, 2, 3, 4}
\* concurrent callers of one predictor runtime
Procs == {"a", "b"}
IdleTask == "idle_unload"
Nobody == "nobody"
\* the registry a runtime process may find when it starts: empty, its own row from
\* an earlier run, or only a newer version of its type
SeedRegistries == {<<>>, <<[version |-> 1, traffic |-> 0]>>, <<[version |-> 2, traffic |-> 0]>>}
\* versions a caller may name (4 is not in the registry of the traffic model)
RequestVersions == {1, 2, 3, 4}
\* traffic values a caller may ask for (101 is out of range)
TrafficInputs == {-1, 0, 25, 50, 100, 101}
\* traffic_percentage of versions 1,2,3 when the behaviour starts; each is
\* reached from the all-zero registry by set_predictor_traffic calls
SeedDistributions == {<<0, 0, 0>>, <<100, 0, 0>>, <<50, 50, 0>>}

VARIABLES
    predictors,   \* the "predictors" collection of one prediction type, in insertion order: [version, traffic]; the id is the index
    metrics,      \* the "metrics" collection: a bag of rows
    tcall,        \* per caller: the admin traffic call in progress
    tstarted,     \* number of traffic calls started
    epoch,        \* history: the store when the oldest call in flight started, and the calls started since
    ccall,        \* per creator: the create_predictor call in progress
    cstarted,     \* number of create_predictor calls started
    initialized,  \* BasePredictor._initialized
    loaded,       \* BasePredictor._loaded
    init_lock,    \* BasePredictor._init_lock
    load_lock,    \* BasePredictor._load_lock
    rcall,        \* per task of the runtime: where it is in its call
    rstarted,     \* number of calls made on the runtime
    weights,      \* WEIGHTS_PATH/<predictor id> exists
    model,        \* what is in memory
    seeded,       \* history: the row and the weights existed when the process started
    nDownload,    \* history: calls of _download_predictor
    nSetupFailed, \* history: setup() calls that raised
    cycleLoads,   \* history: _load_predictor calls that returned since _loaded was last cleared
    unload_tasks, \* history: _unload_after_timeout tasks created and neither cancelled nor finished
    queues,       \* EventBus._queues: queue name -> [batch_size]
    handlers,     \* EventBus._handlers: event type -> handlers in subscription order
    event_to_queue, \* EventBus._event_to_queue: event type -> queue name
    running,      \* EventBus._running
    tasks,        \* EventBus._tasks: queue name -> the consumer task, its position and its event_batch
    broker,       \* the broker's list of every queue, head first
    invocations,  \* every call of handler.handle made so far, in call order: [queue, handler, events, status]
    publish_result, \* outcome of the last publish_async call
    stopping,     \* a stop() call has cancelled the consumer tasks and awaits them
    subscribe_result, \* the last subscribe call and whether it raised
    hist,         \* history of the bus: what was published, popped and flushed
    catalog,      \* the "predictors" collection with both prediction types: a set of rows
    article_predictions, \* the "article_predictions" collection: a set of documents
    pcalls,       \* every ArticleService.process_articles call made so far, in call order
    runtimes,     \* per predictor runtime of the container: _loaded, a pending _unload_task, the forward a handler has in flight
    cleanup,      \* where cleanup_resources is, and the forwards handlers started
    pick,         \* the last get_random_predictor call and its outcome
    lifecycle,    \* the last start() call, or stop() call on a stopped bus, and the number of such calls
    orphans,      \* per queue, the number of live consumer tasks that _tasks no longer refers to
    publish_task  \* outcome of the task the last publish() call created

storeVars == <<predictors, metrics>>
trafficVars == <<tcall, tstarted, epoch>>
registryVars == <<ccall, cstarted>>
runtimeVars == <<initialized, loaded, init_lock, load_lock, rcall, rstarted, weights, model,
                 seeded, nDownload, nSetupFailed, cycleLoads, unload_tasks>>
busVars == <<queues, handlers, event_to_queue, running, tasks, broker, invocations,
             publish_result, stopping, subscribe_result, hist>>
articleVars == <<catalog, article_predictions, pcalls>>
platformVars == <<runtimes, cleanup, pick, lifecycle, publish_task, orphans>>
vars == <<predictors, metrics, tcall, tstarted, epoch, ccall, cstarted, initialized, loaded,
          init_lock, load_lock, rcall, rstarted, weights, model, seeded, nDownload,
          nSetupFailed, cycleLoads, unload_tasks, queues, handlers, event_to_queue, running, tasks, broker,
          invocations, publish_result, stopping, subscribe_result, hist,
          catalog, article_predictions, pcalls,
          runtimes, cleanup, pick, lifecycle, publish_task, orphans>>

(***************************************************************************)
(* Helpers                                                                 *)
(***************************************************************************)
Abs(x) == IF x < 0 THEN -x ELSE x
Max2(a, b) == IF a >= b THEN a ELSE b
Min2(a, b) == IF a <= b THEN a ELSE b

RECURSIVE SumPct(_)
SumPct(dist) == IF Len(dist) = 0 THEN 0 ELSE Head(dist).pct + SumPct(Tail(dist))

RECURSIVE SumTraffic(_)
SumTraffic(preds) == IF Len(preds) = 0 THEN 0 ELSE Head(preds).traffic + SumTraffic(Tail(preds))

HasId(dist, id) == \E i \in 1..Len(dist) : dist[i].id = id
PctOf(dist, id) == dist[CHOOSE i \in 1..Len(dist) : dist[i].id = id].pct

(***************************************************************************)
(* Python's round(remaining_traffic * (current_traffic / total)) on IEEE   *)
(* doubles.  Away from a tie it is the nearest integer.  At an exact tie   *)
(* round() goes to the even neighbour, unless the double product has       *)
(* already left the tie: FloatTies lists those arguments                   *)
(* (r * 1000000 + v * 1000 + total, for r, v in 1..100, total in 1..200),  *)
(* where the result is the odd neighbour.                                  *)
(***************************************************************************)
FloatTies == {
    45007010, 85007010, 91009014, 99011018, 90007020, 45014020, 85014020, 55003022, 99003022,
    11015022, 13015026, 42017028, 98017028, 91018028, 75011030, 45021030, 85021030, 85025034,
    99022036, 90023036, 19021038, 95021038, 95025038, 90014040, 100023040, 45028040, 85028040,
    91027042, 55006044, 99006044, 22015044, 22025044, 11030044, 69021046, 69027046, 75007050,
    45035050, 85035050, 75041050, 26015052, 13030052, 78035052, 27029054, 99033054, 84017056,
    28029056, 42034056, 98034056, 91036056, 84041056, 87017058, 29031058, 90021060, 75022060,
    90031060, 45042060, 85042060, 93017062, 93021062, 93035062, 55009066, 99009066, 99019066,
    99037066, 11045066, 85050068, 35029070, 91045070, 35047070, 45049070, 85049070, 99044072,
    90046072, 37039074, 37043074, 38021076, 19042076, 95042076, 95050076, 38061076, 39025078,
    39031078, 13045078, 90028080, 100046080, 45056080, 85056080, 41047082, 42051084, 98051084,
    91054084, 42059084, 43023086, 43031086, 55012088, 99012088, 44015088, 44025088, 22030088,
    22050088, 11060088, 44061088, 45029090, 75033090, 99055090, 45063090, 85063090, 69042092,
    69054092, 47003094, 47031094, 47051094, 47057094, 49027098, 49053098, 49055098, 91063098,
    75014100, 90035100, 45070100, 85070100, 75082100, 51031102, 51053102, 85075102, 52015104,
    26030104, 52057104, 13060104, 52063104, 78070104, 54029108, 27058108, 99066108, 90069108,
    55007110, 55015110, 99015110, 55031110, 11075110, 45077110, 85077110, 56029112, 84034112,
    28058112, 42068112, 98068112, 91072112, 84082112, 19063114, 95063114, 95075114, 58031116,
    87034116, 58059116, 29062116, 90042120, 75044120, 90062120, 100069120, 45084120, 85084120,
    93034124, 93042124, 93070124, 99077126, 91081126, 13075130, 45091130, 85091130, 55018132,
    99018132, 99038132, 22045132, 99074132, 22075132, 11090132, 67085134, 85100136, 69011138,
    69063138, 69081138, 70029140, 70047140, 90049140, 35058140, 70081140, 42085140, 98085140,
    91090140, 35094140, 45098140, 85098140, 71007142, 71031142, 71077142, 71089142, 99088144,
    90092144, 74039148, 74043148, 37078148, 37086148, 75021150, 75055150, 75079150, 76021152,
    38042152, 76061152, 19084152, 95084152, 76087152, 95100152, 55021154, 99021154, 77039154,
    91099154, 78025156, 78031156, 26045156, 39050156, 39062156, 13090156, 78095156, 79047158,
    79097158, 90056160, 100092160, 27087162, 99099162, 82047164, 41094164, 83007166, 83025166,
    83097166, 84051168, 84059168, 28087168, 85013170, 85093170, 86023172, 86031172, 43046172,
    43062172, 87013174, 87051174, 87059174, 29093174, 88015176, 55024176, 99024176, 88025176,
    44030176, 44050176, 22060176, 88061176, 88089176, 22100176, 89047178, 89051178, 89055178,
    89059178, 89063178, 89093178, 90029180, 45058180, 90063180, 75066180, 90093180, 91025182,
    91053182, 91099182, 69084184, 92099184, 93051186, 93053186, 93063186, 94003188, 47006188,
    94031188, 94051188, 94057188, 47062188, 94099188, 95007190, 95049190, 95063190, 95099190,
    97007194, 97031194, 97059194, 98027196, 98053196, 49054196, 98055196, 98099196, 99013198,
    55027198, 99027198, 99057198, 99059198, 75028200, 90070200
}

PyRound(r, v, total) ==
    LET n == r * v
        q == n \div total
        rem == n % total
    IN  IF 2 * rem < total THEN q
        ELSE IF 2 * rem > total THEN q + 1
        ELSE LET even == IF q % 2 = 0 THEN q ELSE q + 1
                 odd == IF q % 2 = 0 THEN q + 1 ELSE q
             IN  IF (r * 1000000 + v * 1000 + total) \in FloatTies THEN odd ELSE even

(***************************************************************************)
(* PredictorService: the pure traffic arithmetic.  A distribution is the   *)
(* dict {predictor_id: traffic} in its insertion order: a sequence of      *)
(* [id, pct].                                                              *)
(***************************************************************************)
RedistributeTraffic(distributions, traffic_to_redistribute) ==
    LET remaining_traffic == Abs(traffic_to_redistribute)
        contributing == SelectSeq(distributions, LAMBDA e : e.pct > 0)
        total_contributing == SumPct(contributing)
    IN  IF Len(distributions) = 0 \/ traffic_to_redistribute = 0 THEN distributions
        ELSE IF total_contributing = 0 THEN distributions
        ELSE [i \in 1..Len(distributions) |->
                LET current_traffic == distributions[i].pct
                    adjustment == PyRound(remaining_traffic, current_traffic, total_contributing)
                IN  IF current_traffic <= 0 THEN distributions[i]
                    ELSE IF traffic_to_redistribute < 0
                         THEN [distributions[i] EXCEPT !.pct = Max2(0, current_traffic - adjustment)]
                         ELSE [distributions[i] EXCEPT !.pct = current_traffic + adjustment]]

\* [ok, dist]: ok is FALSE where the code raises ValueError
CalculateTrafficDistribution(current_distributions, target_predictor_id, target_traffic) ==
    IF target_traffic < 0 \/ target_traffic > 100 THEN [ok |-> FALSE, dist |-> <<>>]
    ELSE IF ~HasId(current_distributions, target_predictor_id) THEN [ok |-> FALSE, dist |-> <<>>]
    ELSE
    LET traffic_delta == target_traffic - PctOf(current_distributions, target_predictor_id)
        new_distributions ==
            [i \in 1..Len(current_distributions) |->
                IF current_distributions[i].id = target_predictor_id
                THEN [current_distributions[i] EXCEPT !.pct = target_traffic]
                ELSE current_distributions[i]]
        other_predictors ==
            SelectSeq(current_distributions, LAMBDA e : e.id # target_predictor_id)
        redistributed == RedistributeTraffic(other_predictors, -traffic_delta)
    IN  IF traffic_delta = 0 THEN [ok |-> TRUE, dist |-> new_distributions]
        ELSE IF Len(other_predictors) = 0
        THEN [ok |-> TRUE,
              dist |-> SelectSeq(new_distributions, LAMBDA e : e.id = target_predictor_id)]
        ELSE [ok |-> TRUE,
              dist |-> [i \in 1..Len(new_distributions) |->
                          IF new_distributions[i].id = target_predictor_id
                          THEN new_distributions[i]
                          ELSE [new_distributions[i] EXCEPT
                                  !.pct = PctOf(redistributed, new_distributions[i].id)]]]

(***************************************************************************)
(* PredictorRepository: reads of the "predictors" collection.  _to_model   *)
(* builds a PredictorDocument, whose validator rejects a traffic           *)
(* percentage outside 0..100.                                              *)
(***************************************************************************)
ValidDoc(doc) == doc.traffic >= 0 /\ doc.traffic <= 100

RECURSIVE SortByVersionDesc(_, _)
SortByVersionDesc(preds, S) ==
    IF S = {} THEN <<>>
    ELSE LET m == CHOOSE i \in S : \A j \in S : preds[j].version <= preds[i].version
         IN  <<m>> \o SortByVersionDesc(preds, S \ {m})

\* ids of the documents find_predictors_by_prediction_type returns, newest first
FindPredictorsByPredictionType(preds, only_actives) ==
    SortByVersionDesc(preds, {i \in 1..Len(preds) : only_actives => preds[i].traffic > 0})

\* 0 when there is no such document
FindPredictor(preds, predictor_version) ==
    IF \E i \in 1..Len(preds) : preds[i].version = predictor_version
    THEN CHOOSE i \in 1..Len(preds) : preds[i].version = predictor_version
    ELSE 0

\* 0 when the collection is empty
GetNewestPredictor(preds) ==
    IF Len(preds) = 0 THEN 0 ELSE Head(SortByVersionDesc(preds, 1..Len(preds)))

UpdateTrafficPercentage(preds, predictor_id, traffic_percentage) ==
    [preds EXCEPT ![predictor_id].traffic = traffic_percentage]

\* the active distribution the admin calls return
ActiveDistribution(preds) ==
    LET ids == FindPredictorsByPredictionType(preds, TRUE)
    IN  [k \in 1..Len(ids) |-> [id |-> ids[k], pct |-> preds[ids[k]].traffic]]

(***************************************************************************)
(* The admin operations, cut at their awaits.                              *)
(*   op = [kind, version, traffic], kind in shift / set / deactivate       *)
(***************************************************************************)
TrafficOps ==
    {[kind |-> "shift", version |-> 0, traffic |-> 0]}
    \cup {[kind |-> "set", version |-> v, traffic |-> t] : v \in RequestVersions, t \in TrafficInputs}
    \cup {[kind |-> "deactivate", version |-> v, traffic |-> 0] : v \in RequestVersions}

MetricOf(op) ==
    IF op.kind = "deactivate" THEN "predictor_traffic_deactivation" ELSE "predictor_traffic_update"

\* a faulty variant of LookupTarget: a version that is not registered is taken
\* for the first document of the collection
LookupTarget_AnyTarget(preds, op) ==
    LET id == IF op.kind = "shift" THEN GetNewestPredictor(preds)
              ELSE IF FindPredictor(preds, op.version) = 0 /\ Len(preds) > 0 THEN 1
              ELSE FindPredictor(preds, op.version)
        target_traffic ==
            IF op.kind = "shift"
            THEN Min2(MAX_TRAFFIC_THRESHOLD, preds[id].traffic + SHIFT_STEP)
            ELSE IF op.kind = "set" THEN op.traffic ELSE 0
    IN  IF id = 0 \/ ~ValidDoc(preds[id])
        THEN [ok |-> FALSE, adjust |-> FALSE, id |-> 0, traffic |-> 0]
        ELSE [ok |-> TRUE, adjust |-> TRUE, id |-> id, traffic |-> target_traffic]

\* shift_newest_predictor_traffic / set_predictor_traffic / deactivate_predictor up to
\* the call of adjust_traffic_distribution: [ok, adjust, id, traffic]
LookupTarget(preds, op) ==
    LET id == IF op.kind = "shift" THEN GetNewestPredictor(preds)
              ELSE FindPredictor(preds, op.version)
        target_traffic ==
            IF op.kind = "shift"
            THEN Min2(MAX_TRAFFIC_THRESHOLD, preds[id].traffic + SHIFT_STEP)
            ELSE IF op.kind = "set" THEN op.traffic ELSE 0
    IN  IF id = 0 \/ ~ValidDoc(preds[id])
        THEN [ok |-> FALSE, adjust |-> FALSE, id |-> 0, traffic |-> 0]
        ELSE [ok |-> TRUE,
              adjust |-> ~(op.kind = "shift" /\ target_traffic > MAX_TRAFFIC_THRESHOLD),
              id |-> id, traffic |-> target_traffic]

\* adjust_traffic_distribution from the read of the active predictors to the new
\* distribution: [ok, todo], todo the (id, pct, version) to write, in dict order.
\* target_doc_traffic is the target's traffic as find_by_id read it.
PlanDistribution(preds, target_predictor_id, target_doc_traffic, target_traffic) ==
    LET ids == FindPredictorsByPredictionType(preds, TRUE)
        docs == [k \in 1..Len(ids) |->
                   [id |-> ids[k],
                    pct |-> IF ids[k] = target_predictor_id THEN target_doc_traffic
                            ELSE preds[ids[k]].traffic,
                    version |-> preds[ids[k]].version]]
        current_distributions ==
            IF HasId(docs, target_predictor_id) THEN docs
            ELSE Append(docs, [id |-> target_predictor_id, pct |-> target_doc_traffic,
                               version |-> preds[target_predictor_id].version])
        calc == CalculateTrafficDistribution(current_distributions, target_predictor_id,
                                             target_traffic)
    IN  IF \E k \in 1..Len(ids) : ~ValidDoc(preds[ids[k]])
        THEN [ok |-> FALSE, todo |-> <<>>]
        ELSE [ok |-> calc.ok, todo |-> calc.dist]

TrafficRow(name, e) == [name |-> name, version |-> e.version, value |-> e.pct]

RECURSIVE RowsOf(_, _)
RowsOf(name, todo) ==
    IF Len(todo) = 0 THEN EmptyBag
    ELSE SetToBag({TrafficRow(name, Head(todo))}) (+) RowsOf(name, Tail(todo))

\* the writes of todo, in order; update_traffic_percentage re-reads the document it
\* wrote through _to_model, so the loop stops after writing a value outside 0..100
RECURSIVE WriteAll(_, _, _)
WriteAll(preds, name, todo) ==
    IF Len(todo) = 0 THEN [ok |-> TRUE, preds |-> preds, rows |-> EmptyBag]
    ELSE LET e == Head(todo)
             written == UpdateTrafficPercentage(preds, e.id, e.pct)
             rest == WriteAll(written, name, Tail(todo))
         IN  IF ~ValidDoc(written[e.id])
             THEN [ok |-> FALSE, preds |-> written, rows |-> SetToBag({TrafficRow(name, e)})]
             ELSE [ok |-> rest.ok, preds |-> rest.preds,
                   rows |-> SetToBag({TrafficRow(name, e)}) (+) rest.rows]

\* one whole admin call run alone on the store, no store failure: [ok, preds, rows]
ApplyOp(preds, op) ==
    LET l == LookupTarget(preds, op)
        p == PlanDistribution(preds, l.id, preds[l.id].traffic, l.traffic)
        w == WriteAll(preds, MetricOf(op), p.todo)
        unchanged == [ok |-> FALSE, preds |-> preds, rows |-> EmptyBag]
    IN  IF op.kind = "set" /\ (op.traffic < 0 \/ op.traffic > 100) THEN unchanged
        ELSE IF ~l.ok THEN unchanged
        ELSE IF ~l.adjust THEN [unchanged EXCEPT !.ok = TRUE]
        ELSE IF ~p.ok THEN unchanged
        ELSE [w EXCEPT !.ok = w.ok /\ \A i \in 1..Len(w.preds) : ValidDoc(w.preds[i])]

NoOp == [kind |-> "none", version |-> 0, traffic |-> 0]
IdleCall == [pc |-> "idle", op |-> NoOp, id |-> 0, traffic |-> 0, doc |-> 0,
             todo |-> <<>>, ret |-> <<>>]

InFlight(c) == tcall[c].pc \notin {"idle", "done", "failed"}
AllQuiet == \A c \in Callers : ~InFlight(c)

\* the call raises: its locals are gone, the error is what the caller gets
FailCall(c) ==
    /\ tcall' = [tcall EXCEPT ![c] = [IdleCall EXCEPT !.pc = "failed", !.op = tcall[c].op]]
    /\ epoch' = [epoch EXCEPT !.failed = TRUE]

\* the call is made; set_predictor_traffic checks the range before its first await
TBegin(c, op) ==
    /\ ~InFlight(c)
    /\ tstarted' = tstarted + 1
    /\ LET bad == op.kind = "set" /\ (op.traffic < 0 \/ op.traffic > 100)
           e == IF AllQuiet
                THEN [pred |-> predictors, met |-> metrics, ops |-> <<op>>, failed |-> bad]
                ELSE [epoch EXCEPT !.ops = Append(@, op), !.failed = @ \/ bad]
       IN  /\ tcall' = [tcall EXCEPT ![c] = [IdleCall EXCEPT !.op = op,
                                              !.pc = IF bad THEN "failed" ELSE "lookup"]]
           /\ epoch' = e
    /\ UNCHANGED <<storeVars, registryVars, runtimeVars, busVars, articleVars, platformVars>>

SerialCaller == CHOOSE c \in Callers : TRUE

\* an admin call made while no other one is in progress
TStart(c, op) ==
    /\ AllQuiet
    /\ tstarted < MaxCalls
    /\ TBegin(c, op)

\* an admin call made at any time: calls of several HTTP requests overlap
TStartConcurrent(c, op) ==
    /\ tstarted < MaxRaceCalls
    /\ TBegin(c, op)

\* get_newest_predictor / find_predictor, and the target traffic
TLookup(c) ==
    /\ tcall[c].pc = "lookup"
    /\ LET l == LookupTarget(predictors, tcall[c].op)
       IN  IF ~l.ok THEN FailCall(c)
           ELSE /\ tcall' = [tcall EXCEPT ![c].id = l.id, ![c].traffic = l.traffic,
                                          ![c].pc = IF l.adjust THEN "read_target"
                                                    ELSE "final_read"]
                /\ UNCHANGED epoch
    /\ UNCHANGED <<storeVars, tstarted, registryVars, runtimeVars, busVars, articleVars, platformVars>>

\* transaction(): find_by_id(target_predictor_id)
TReadTarget(c) ==
    /\ tcall[c].pc = "read_target"
    /\ IF ~ValidDoc(predictors[tcall[c].id]) THEN FailCall(c)
       ELSE /\ tcall' = [tcall EXCEPT ![c].doc = predictors[tcall[c].id].traffic,
                                      ![c].pc = "read_actives"]
            /\ UNCHANGED epoch
    /\ UNCHANGED <<storeVars, tstarted, registryVars, runtimeVars, busVars, articleVars, platformVars>>

\* transaction(): find_predictors_by_prediction_type(only_actives) and the new distribution
TReadActives(c) ==
    /\ tcall[c].pc = "read_actives"
    /\ LET p == PlanDistribution(predictors, tcall[c].id, tcall[c].doc, tcall[c].traffic)
       IN  IF ~p.ok THEN FailCall(c)
           ELSE /\ tcall' = [tcall EXCEPT ![c].todo = p.todo, ![c].pc = "metric"]
                /\ UNCHANGED epoch
    /\ UNCHANGED <<storeVars, tstarted, registryVars, runtimeVars, busVars, articleVars, platformVars>>

\* transaction(): create_metric for the next predictor of new_distributions
TCreateMetric(c) ==
    /\ tcall[c].pc = "metric"
    /\ metrics' = metrics (+) SetToBag({TrafficRow(MetricOf(tcall[c].op), Head(tcall[c].todo))})
    /\ tcall' = [tcall EXCEPT ![c].pc = "update"]
    /\ UNCHANGED <<predictors, tstarted, epoch, registryVars, runtimeVars, busVars, articleVars, platformVars>>

\* transaction(): update_traffic_percentage for that predictor
TUpdateTraffic(c) ==
    /\ tcall[c].pc = "update"
    /\ LET e == Head(tcall[c].todo)
           rest == Tail(tcall[c].todo)
       IN  /\ predictors' = UpdateTrafficPercentage(predictors, e.id, e.pct)
           /\ IF ~ValidDoc(predictors'[e.id]) THEN FailCall(c)
              ELSE /\ tcall' = [tcall EXCEPT ![c].todo = rest,
                                             ![c].pc = IF Len(rest) = 0 THEN "final_read"
                                                       ELSE "metric"]
                   /\ UNCHANGED epoch
    /\ UNCHANGED <<metrics, tstarted, registryVars, runtimeVars, busVars, articleVars, platformVars>>

\* the closing find_predictors_by_prediction_type(only_actives): the returned distribution
TFinalRead(c) ==
    /\ tcall[c].pc = "final_read"
    /\ IF \E i \in 1..Len(predictors) : predictors[i].traffic > 0 /\ ~ValidDoc(predictors[i])
       THEN FailCall(c)
       ELSE /\ tcall' = [tcall EXCEPT ![c] = [IdleCall EXCEPT !.pc = "done", !.op = tcall[c].op,
                                                          !.ret = ActiveDistribution(predictors)]]
            /\ UNCHANGED epoch
    /\ UNCHANGED <<storeVars, tstarted, registryVars, runtimeVars, busVars, articleVars, platformVars>>

\* a read or write of the store raises: MongoClient.start_transaction logs and re-raises
TStoreFailure(c) ==
    /\ tcall[c].pc \in {"lookup", "read_target", "read_actives", "metric", "update", "final_read"}
    /\ FailCall(c)
    /\ UNCHANGED <<storeVars, tstarted, registryVars, runtimeVars, busVars, articleVars, platformVars>>

(***************************************************************************)
(* PredictorRepository.create_predictor, cut at its awaits.                *)
(***************************************************************************)
IdleCreate == [pc |-> "idle", version |-> 0]

Creating(k) == ccall[k].pc \in {"read", "insert"}
NoCreate == \A k \in Creators : ~Creating(k)

MaxVersion(preds) ==
    IF GetNewestPredictor(preds) = 0 THEN 0 ELSE preds[GetNewestPredictor(preds)].version

\* a faulty variant of MaxExistingVersion: max_version keeps its initial 0
MaxExistingVersion_Unset(preds) == 0

\* _create_predictor: the version the new one must exceed, as get_newest_predictor reads it
MaxExistingVersion(preds) == MaxVersion(preds)

\* _create_predictor: the check that raises "Cannot decrease version number"
VersionRejected(predictor_version, max_version) == predictor_version <= max_version

\* insert_one under the unique index (prediction_type, predictor_version)
DuplicateKey(preds, predictor_version) == FindPredictor(preds, predictor_version) # 0

InsertPredictor(preds, predictor_version) ==
    Append(preds, [version |-> predictor_version, traffic |-> 0])

SerialCreator == CHOOSE k \in Creators : TRUE

CBegin(k, v) ==
    /\ ~Creating(k)
    /\ cstarted < MaxCreates
    /\ cstarted' = cstarted + 1
    /\ ccall' = [ccall EXCEPT ![k] = [pc |-> "read", version |-> v]]
    /\ UNCHANGED <<storeVars, trafficVars, runtimeVars, busVars, articleVars, platformVars>>

\* a create_predictor call made while no other one is in progress
CStart(k, v) == NoCreate /\ CBegin(k, v)

\* a create_predictor call made at any time
CStartConcurrent(k, v) == CBegin(k, v)

\* get_newest_predictor and the version check
CReadNewest(k) ==
    /\ ccall[k].pc = "read"
    /\ ccall' = [ccall EXCEPT ![k].pc =
                    IF VersionRejected(ccall[k].version, MaxExistingVersion(predictors))
                    THEN "failed" ELSE "insert"]
    /\ UNCHANGED <<storeVars, trafficVars, cstarted, runtimeVars, busVars, articleVars, platformVars>>

\* _insert_predictor
CInsert(k) ==
    /\ ccall[k].pc = "insert"
    /\ IF DuplicateKey(predictors, ccall[k].version)
       THEN /\ ccall' = [ccall EXCEPT ![k].pc = "failed"]
            /\ UNCHANGED predictors
       ELSE /\ predictors' = InsertPredictor(predictors, ccall[k].version)
            /\ ccall' = [ccall EXCEPT ![k].pc = "done"]
    /\ UNCHANGED <<metrics, trafficVars, cstarted, runtimeVars, busVars, articleVars, platformVars>>

\* the read or the insert raises
CStoreFailure(k) ==
    /\ Creating(k)
    /\ ccall' = [ccall EXCEPT ![k].pc = "failed"]
    /\ UNCHANGED <<storeVars, trafficVars, cstarted, runtimeVars, busVars, articleVars, platformVars>>

(***************************************************************************)
(* BasePredictor: one predictor runtime (prediction type, RuntimeVersion), *)
(* cut at its awaits.  rcall[t] is the call task t is in: the callers in   *)
(* Procs, and the idle-unload task (_unload_task) as IdleTask.             *)
(*   model: what is in memory: "none", "ready" (wholly loaded) or          *)
(*          "partial" (a load or an unload has begun and not completed)    *)
(***************************************************************************)
Tasks == Procs \cup {IdleTask}

\* asyncio.Lock: [holder, waiters]; release hands the lock to the first waiter
FreeLock == [holder |-> Nobody, waiters |-> <<>>]

\* "async with lock" enters without suspending
LockFree(lock) == lock.holder = Nobody /\ lock.waiters = <<>>

\* a faulty variant of InitLockFree: setup does not exclude a second caller
InitLockFree_NoLock(lock) == TRUE

\* setup: "async with self._init_lock" enters without suspending
InitLockFree(lock) == LockFree(lock)

Acquired(lock, t) == [lock EXCEPT !.holder = t]
Enqueued(lock, t) == [lock EXCEPT !.waiters = Append(@, t)]
Release(lock) ==
    IF lock.waiters = <<>> THEN FreeLock
    ELSE [holder |-> Head(lock.waiters), waiters |-> Tail(lock.waiters)]

\* a cancelled task leaves the lock it holds or waits for
Withdraw(lock, t) ==
    IF lock.holder = t THEN Release(lock)
    ELSE [lock EXCEPT !.waiters = SelectSeq(@, LAMBDA w : w # t)]

RuntimeRow(name, value) == [name |-> name, version |-> RuntimeVersion, value |-> value]
WithMetric(m, name, value) == m (+) SetToBag({RuntimeRow(name, value)})

Ended(t) == rcall[t].pc \in {"idle", "done", "error"}

\* the part of the state the synchronous stretches below pass along
Ctx == [lock |-> load_lock, calls |-> rcall, model |-> model, unload_tasks |-> unload_tasks]
\* the task t goes to pc; an idle-unload task that starts its sleep is a new task, one
\* that is done has finished or was cancelled
SetPc(ctx, t, pc) ==
    [ctx EXCEPT !.calls[t].pc = pc,
                !.unload_tasks =
                    IF t = IdleTask /\ pc = "sleep" THEN @ + 1
                    ELSE IF t = IdleTask /\ pc = "done" /\ ctx.calls[t].pc \notin {"idle", "done"}
                         THEN @ - 1
                         ELSE @]
Released(ctx) == [ctx EXCEPT !.lock = Release(@)]

\* self._unload_task and not self._unload_task.done()
UnloadTaskPending(calls) == calls[IdleTask].pc \notin {"idle", "done"}

\* a faulty variant of CancelUnloadTask: the pending task is left alone
CancelUnloadTask_Never(ctx) == ctx

\* self._unload_task.cancel(): CancelledError is raised at the await the task is at
CancelUnloadTask(ctx) ==
    IF ~UnloadTaskPending(ctx.calls) THEN ctx
    ELSE [SetPc(ctx, IdleTask, "done") EXCEPT !.lock = Withdraw(@, IdleTask)]

\* _schedule_unload
ScheduleUnload(ctx) == SetPc(CancelUnloadTask(ctx), IdleTask, "sleep")

\* forward, from the cancel of the idle-unload task to the call of _forward
ForwardBody(ctx, p) == SetPc(CancelUnloadTask(ctx), p, "forwarding")

\* what follows load_predictor in its caller
AfterLoad(ctx, p) ==
    IF ctx.calls[p].op = "forward" THEN ForwardBody(ctx, p) ELSE SetPc(ctx, p, "done")

\* a faulty variant of NotInitialized: the call goes on whatever _initialized is
NotInitialized_Never(i) == FALSE

\* _ensure_initialized raises RuntimeError
NotInitialized(i) == ~i

\* a faulty variant of AlreadyLoaded: load_predictor does not look at _loaded under the lock
AlreadyLoaded_Unchecked(l) == FALSE

\* load_predictor: "if self._loaded: return" under the lock
AlreadyLoaded(l) == l

\* load_predictor once it holds load_lock
LoadLockedBody(ctx, p) ==
    IF AlreadyLoaded(loaded) THEN AfterLoad(Released(ctx), p) ELSE SetPc(ctx, p, "load_get")

\* load_predictor up to its first await
EnterLoad(ctx, p) ==
    IF LockFree(ctx.lock) THEN LoadLockedBody([ctx EXCEPT !.lock = Acquired(@, p)], p)
    ELSE SetPc([ctx EXCEPT !.lock = Enqueued(@, p)], p, "load_wait")

\* unload_predictor once it holds load_lock: the call of _unload_predictor
UnloadLockedBody(ctx, t) ==
    IF ~loaded THEN SetPc(Released(ctx), t, "done")
    ELSE [SetPc(ctx, t, "unloading") EXCEPT !.model = IF @ = "none" THEN "none" ELSE "partial"]

\* unload_predictor up to its first await
EnterUnload(ctx, t) ==
    IF LockFree(ctx.lock) THEN UnloadLockedBody([ctx EXCEPT !.lock = Acquired(@, t)], t)
    ELSE SetPc([ctx EXCEPT !.lock = Enqueued(@, t)], t, "unl_wait")

Apply(ctx) ==
    /\ load_lock' = ctx.lock
    /\ rcall' = ctx.calls
    /\ model' = ctx.model
    /\ unload_tasks' = ctx.unload_tasks

Begin(p, op) ==
    /\ p \in Procs
    /\ Ended(p)
    /\ rstarted < MaxRuntimeCalls
    /\ rstarted' = rstarted + 1

Called(p, op) == [Ctx EXCEPT !.calls[p] = [pc |-> "start", op |-> op]]

setupFrame == <<loaded, load_lock, model, metrics, cycleLoads, unload_tasks, seeded, trafficVars, registryVars, busVars, articleVars, platformVars>>

\* setup() is called
Setup(p) ==
    /\ Begin(p, "setup")
    /\ IF InitLockFree(init_lock)
       THEN IF initialized
            THEN /\ rcall' = [rcall EXCEPT ![p] = [pc |-> "done", op |-> "setup"]]
                 /\ UNCHANGED init_lock
            ELSE /\ rcall' = [rcall EXCEPT ![p] = [pc |-> "setup_get", op |-> "setup"]]
                 /\ init_lock' = Acquired(init_lock, p)
       ELSE /\ rcall' = [rcall EXCEPT ![p] = [pc |-> "setup_wait", op |-> "setup"]]
            /\ init_lock' = Enqueued(init_lock, p)
    /\ UNCHANGED <<initialized, predictors, weights, nDownload, nSetupFailed, setupFrame>>

\* setup() gets init_lock from the caller that held it
SetupLocked(p) ==
    /\ rcall[p].pc = "setup_wait"
    /\ init_lock.holder = p
    /\ IF initialized
       THEN /\ rcall' = [rcall EXCEPT ![p].pc = "done"]
            /\ init_lock' = Release(init_lock)
       ELSE /\ rcall' = [rcall EXCEPT ![p].pc = "setup_get"]
            /\ UNCHANGED init_lock
    /\ UNCHANGED <<initialized, predictors, weights, nDownload, nSetupFailed, rstarted, setupFrame>>

\* setup(): get_predictor has answered
SetupGet(p) ==
    /\ rcall[p].pc = "setup_get"
    /\ IF FindPredictor(predictors, RuntimeVersion) # 0 /\ weights
       THEN /\ initialized' = TRUE
            /\ init_lock' = Release(init_lock)
            /\ rcall' = [rcall EXCEPT ![p].pc = "done"]
            /\ UNCHANGED nDownload
       ELSE /\ rcall' = [rcall EXCEPT ![p].pc =
                            IF FindPredictor(predictors, RuntimeVersion) # 0
                            THEN "setup_download_w" ELSE "setup_download"]
            /\ nDownload' = nDownload + 1
            /\ UNCHANGED <<initialized, init_lock>>
    /\ UNCHANGED <<predictors, weights, nSetupFailed, rstarted, setupFrame>>

\* setup(): _download_predictor has returned (ok) or raised
SetupDownloaded(p, ok) ==
    /\ rcall[p].pc \in {"setup_download", "setup_download_w"}
    /\ IF ~ok
       THEN /\ rcall' = [rcall EXCEPT ![p].pc = "error"]
            /\ init_lock' = Release(init_lock)
            /\ nSetupFailed' = nSetupFailed + 1
            /\ UNCHANGED <<initialized, weights>>
       ELSE IF rcall[p].pc = "setup_download_w"
       THEN /\ weights' = TRUE
            /\ initialized' = TRUE
            /\ init_lock' = Release(init_lock)
            /\ rcall' = [rcall EXCEPT ![p].pc = "done"]
            /\ UNCHANGED nSetupFailed
       ELSE /\ rcall' = [rcall EXCEPT ![p].pc = "setup_register"]
            /\ UNCHANGED <<initialized, weights, init_lock, nSetupFailed>>
    /\ UNCHANGED <<predictors, nDownload, rstarted, setupFrame>>

\* setup(): register_predictor has created the row and copied the weights (ok), or
\* create_predictor has raised
SetupRegister(p, ok) ==
    /\ rcall[p].pc = "setup_register"
    /\ IF \/ ~ok
          \/ VersionRejected(RuntimeVersion, MaxExistingVersion(predictors))
          \/ DuplicateKey(predictors, RuntimeVersion)
       THEN /\ rcall' = [rcall EXCEPT ![p].pc = "error"]
            /\ nSetupFailed' = nSetupFailed + 1
            /\ UNCHANGED <<predictors, weights, initialized>>
       ELSE /\ predictors' = InsertPredictor(predictors, RuntimeVersion)
            /\ weights' = TRUE
            /\ initialized' = TRUE
            /\ rcall' = [rcall EXCEPT ![p].pc = "done"]
            /\ UNCHANGED nSetupFailed
    /\ init_lock' = Release(init_lock)
    /\ UNCHANGED <<nDownload, rstarted, setupFrame>>

loadFrame == <<initialized, init_lock, predictors, weights, nDownload, nSetupFailed, seeded,
              trafficVars, registryVars, busVars, articleVars, platformVars>>

\* forward() is called
Forward(p) ==
    /\ Begin(p, "forward")
    /\ IF NotInitialized(initialized) THEN Apply(SetPc(Called(p, "forward"), p, "error"))
       ELSE IF ~loaded THEN Apply(EnterLoad(Called(p, "forward"), p))
       ELSE Apply(ForwardBody(Called(p, "forward"), p))
    /\ UNCHANGED <<loaded, metrics, cycleLoads, loadFrame>>

\* load_predictor() is called on its own
LoadPredictor(p) ==
    /\ Begin(p, "load")
    /\ IF NotInitialized(initialized) THEN Apply(SetPc(Called(p, "load"), p, "error"))
       ELSE Apply(EnterLoad(Called(p, "load"), p))
    /\ UNCHANGED <<loaded, metrics, cycleLoads, loadFrame>>

\* manual_unload() is called
ManualUnload(p) ==
    /\ Begin(p, "unload")
    /\ IF loaded THEN Apply(EnterUnload(CancelUnloadTask(Called(p, "unload")), p))
       ELSE Apply(SetPc(CancelUnloadTask(Called(p, "unload")), p, "done"))
    /\ UNCHANGED <<loaded, metrics, cycleLoads, loadFrame>>

\* load_predictor gets load_lock from the task that held it
LoadLocked(p) ==
    /\ rcall[p].pc = "load_wait"
    /\ load_lock.holder = p
    /\ Apply(LoadLockedBody(Ctx, p))
    /\ UNCHANGED <<loaded, metrics, cycleLoads, rstarted, loadFrame>>

\* load_predictor: get_predictor has answered; _load_predictor is called
LoadGet(p) ==
    /\ rcall[p].pc = "load_get"
    /\ IF FindPredictor(predictors, RuntimeVersion) = 0 \/ ~weights
       THEN Apply(SetPc(Released(Ctx), p, "error"))
       ELSE Apply([SetPc(Ctx, p, "loading") EXCEPT !.model = "partial"])
    /\ UNCHANGED <<loaded, metrics, cycleLoads, rstarted, loadFrame>>

\* _load_predictor has returned (ok) or raised
LoadDone(p, ok) ==
    /\ rcall[p].pc = "loading"
    /\ IF ok
       THEN /\ Apply([SetPc(Ctx, p, "load_metric") EXCEPT !.model = "ready"])
            /\ cycleLoads' = cycleLoads + 1
       ELSE /\ Apply([SetPc(Ctx, p, "load_err_metric") EXCEPT !.model = "none"])
            /\ UNCHANGED cycleLoads
    /\ UNCHANGED <<loaded, metrics, rstarted, loadFrame>>

\* load_predictor: PREDICTOR_LOADING_LATENCY is written, _loaded is set
LoadMetric(p) ==
    /\ rcall[p].pc = "load_metric"
    /\ metrics' = WithMetric(metrics, "predictor_loading_latency", 0)
    /\ loaded' = TRUE
    /\ Apply(AfterLoad(Released(Ctx), p))
    /\ UNCHANGED <<cycleLoads, rstarted, loadFrame>>

\* a faulty variant of LoadErrMetric: the failure is raised without its metric
LoadErrMetric_Silent(p) ==
    /\ rcall[p].pc = "load_err_metric"
    /\ Apply(SetPc(Released(Ctx), p, "error"))
    /\ UNCHANGED <<loaded, metrics, cycleLoads, rstarted, loadFrame>>

\* load_predictor: PREDICTOR_LOADING_ERROR is written, ValueError is raised
LoadErrMetric(p) ==
    /\ rcall[p].pc = "load_err_metric"
    /\ metrics' = WithMetric(metrics, "predictor_loading_error", 1)
    /\ Apply(SetPc(Released(Ctx), p, "error"))
    /\ UNCHANGED <<loaded, cycleLoads, rstarted, loadFrame>>

\* _forward has returned (ok) or raised
ForwardDone(p, ok) ==
    /\ rcall[p].pc = "forwarding"
    /\ rcall' = [rcall EXCEPT ![p].pc = IF ok THEN "fwd_metrics" ELSE "fwd_err_metric"]
    /\ UNCHANGED <<loaded, load_lock, model, metrics, cycleLoads, unload_tasks, rstarted, loadFrame>>

\* forward: PREDICTOR_LATENCY and PREDICTOR_PRICE are written, the idle unload is scheduled
ForwardMetrics(p) ==
    /\ rcall[p].pc = "fwd_metrics"
    /\ metrics' = WithMetric(WithMetric(metrics, "predictor_latency", 0), "predictor_price", 0)
    /\ Apply(SetPc(ScheduleUnload(Ctx), p, "done"))
    /\ UNCHANGED <<loaded, cycleLoads, rstarted, loadFrame>>

\* forward: PREDICTOR_ERROR is written, the exception goes on
ForwardErrMetric(p) ==
    /\ rcall[p].pc = "fwd_err_metric"
    /\ metrics' = WithMetric(metrics, "predictor_error", 1)
    /\ rcall' = [rcall EXCEPT ![p].pc = "error"]
    /\ UNCHANGED <<loaded, load_lock, model, cycleLoads, unload_tasks, rstarted, loadFrame>>

\* a faulty variant of StillLoaded: the timer finds nothing to unload
StillLoaded_Never(l) == FALSE

\* _unload_after_timeout: "if self._loaded" after the sleep
StillLoaded(l) == l

\* _unload_after_timeout: the sleep is over
IdleTimeout ==
    /\ rcall[IdleTask].pc = "sleep"
    /\ IF StillLoaded(loaded) THEN Apply(EnterUnload(Ctx, IdleTask))
       ELSE Apply(SetPc(Ctx, IdleTask, "done"))
    /\ UNCHANGED <<loaded, metrics, cycleLoads, rstarted, loadFrame>>

\* unload_predictor gets load_lock from the task that held it
UnloadLocked(t) ==
    /\ rcall[t].pc = "unl_wait"
    /\ load_lock.holder = t
    /\ Apply(UnloadLockedBody(Ctx, t))
    /\ UNCHANGED <<loaded, metrics, cycleLoads, rstarted, loadFrame>>

\* _unload_predictor has returned (ok) or raised
UnloadDone(t, ok) ==
    /\ rcall[t].pc = "unloading"
    /\ IF ok THEN Apply([SetPc(Ctx, t, "unl_metric") EXCEPT !.model = "none"])
       ELSE Apply(SetPc(Ctx, t, "unl_err_metric"))
    /\ UNCHANGED <<loaded, metrics, cycleLoads, rstarted, loadFrame>>

\* unload_predictor: PREDICTOR_UNLOADING_LATENCY is written, _loaded is cleared
UnloadMetric(t) ==
    /\ rcall[t].pc = "unl_metric"
    /\ metrics' = WithMetric(metrics, "predictor_unloading_latency", 0)
    /\ loaded' = FALSE
    /\ cycleLoads' = 0
    /\ Apply(SetPc(Released(Ctx), t, "done"))
    /\ UNCHANGED <<rstarted, loadFrame>>

\* unload_predictor: PREDICTOR_UNLOADING_ERROR is written, ValueError is raised
\* (_unload_after_timeout logs it)
UnloadErrMetric(t) ==
    /\ rcall[t].pc = "unl_err_metric"
    /\ metrics' = WithMetric(metrics, "predictor_unloading_error", 1)
    /\ Apply(SetPc(Released(Ctx), t, IF t = IdleTask THEN "done" ELSE "error"))
    /\ UNCHANGED <<loaded, cycleLoads, rstarted, loadFrame>>

(***************************************************************************)
(* Event bus (src/events/event_bus.py)                                     *)
(***************************************************************************)
\* EventType
EventTypes == {"metrics_event", "articles_event"}
\* Settings.QUEUE_ARTICLES
QUEUE_ARTICLES == "articles"
QueueNames == {QUEUE_ARTICLES}
\* the queue names and batch sizes register_queue and subscribe are called with
ConfigQueues == {QUEUE_ARTICLES, "metrics"}
ConfigBatchSizes == {1, BatchSize}
\* the handlers subscribe is called with; the last one declares both event types
ConfigHandlers == {"ArticlesHandler", "MetricsHandler", "BothHandler"}
\* the event_types property of a handler
event_types(h) ==
    CASE h = "ArticlesHandler" -> <<"articles_event">>
      [] h = "MetricsHandler" -> <<"metrics_event">>
      [] OTHER -> <<"metrics_event", "articles_event">>

\* what a producer outside the bus may leave in a list of the broker: text that is
\* not JSON, JSON that is not a BaseEvent (a raw article), an event nobody handles
ExternalKinds == {"badjson", "badschema", "metrics_event"}

NoMap == [x \in {} |-> 0]
\* EventBus.__init__
NewBus == [queues |-> NoMap, handlers |-> NoMap, event_to_queue |-> NoMap]

RegisterQueue(bus, queue_name, batch_size) ==
    IF queue_name \in DOMAIN bus.queues
    THEN bus
    ELSE [bus EXCEPT !.queues = (queue_name :> [batch_size |-> batch_size]) @@ @]

\* a subscribe that binds whatever it is given
Conflict_Never(bus, t) == FALSE

\* subscribe: `if event_type in self._event_to_queue`
Conflict(bus, t) == t \in DOMAIN bus.event_to_queue

\* the loop of subscribe over the handler's event types, from the i-th on
RECURSIVE SubscribeTypes(_, _, _, _)
SubscribeTypes(bus, queue_name, h, i) ==
    IF i > Len(event_types(h))
    THEN [bus |-> bus, raised |-> FALSE]
    ELSE LET t == event_types(h)[i]
             old == IF t \in DOMAIN bus.handlers THEN bus.handlers[t] ELSE <<>>
         IN  IF Conflict(bus, t)
             THEN [bus |-> bus, raised |-> TRUE]
             ELSE SubscribeTypes([bus EXCEPT !.event_to_queue = (t :> queue_name) @@ @,
                                             !.handlers = (t :> Append(old, h)) @@ @],
                                 queue_name, h, i + 1)

Subscribe(bus, queue_name, h) ==
    IF queue_name \notin DOMAIN bus.queues
    THEN [bus |-> bus, raised |-> TRUE]
    ELSE SubscribeTypes(bus, queue_name, h, 1)

\* the bus after the queue is registered and the handlers hs have subscribed to it
RECURSIVE SetupEventSystem(_)
SetupEventSystem(hs) ==
    IF hs = <<>>
    THEN RegisterQueue(NewBus, QUEUE_ARTICLES, BatchSize)
    ELSE Subscribe(SetupEventSystem(SubSeq(hs, 1, Len(hs) - 1)), QUEUE_ARTICLES, hs[Len(hs)]).bus

\* the platform subscribes the articles handler; a deployment may add the metrics handler
BusSetups == {<<"ArticlesHandler">>, <<"ArticlesHandler", "MetricsHandler">>}

\* BaseEvent.model_dump_json: the text pushed to the broker
ModelDumpJson(e) == [json |-> TRUE, event_type |-> e.event_type, content |-> e.content]
\* json.loads raises JSONDecodeError on this item
JSONDecodeError(item) == ~item.json
\* json.loads
JsonLoads(item) == [event_type |-> item.event_type, content |-> item.content]
\* BaseEvent.model_validate raises ValidationError on this message
ValidationError(message_data) == message_data.event_type \notin EventTypes
\* BaseEvent.model_validate
ModelValidate(message_data) == [event_type |-> message_data.event_type, content |-> message_data.content]

\* the item a producer outside the bus pushes
ExternalItem(kind, id) ==
    CASE kind = "badjson" -> [json |-> FALSE, event_type |-> "none", content |-> id]
      [] kind = "badschema" -> [json |-> TRUE, event_type |-> "none", content |-> id]
      [] OTHER -> ModelDumpJson([event_type |-> kind, content |-> id])

\* the decoding loop of process_event_batch from the i-th item on: an item that is
\* not JSON is skipped, an item that is not a BaseEvent ends the whole function
RECURSIVE DecodeBatch(_, _, _)
DecodeBatch(event_batch, i, base_events) ==
    IF i > Len(event_batch)
    THEN [returned |-> FALSE, base_events |-> base_events]
    ELSE IF JSONDecodeError(event_batch[i])
         THEN DecodeBatch(event_batch, i + 1, base_events)
         ELSE IF ValidationError(JsonLoads(event_batch[i]))
              THEN [returned |-> TRUE, base_events |-> <<>>]
              ELSE DecodeBatch(event_batch, i + 1,
                               Append(base_events, ModelValidate(JsonLoads(event_batch[i]))))

\* the keys of events_by_type, in insertion order
RECURSIVE TypesInOrder(_, _)
TypesInOrder(events_data, seen) ==
    IF events_data = <<>>
    THEN seen
    ELSE LET t == Head(events_data).event_type
         IN  TypesInOrder(Tail(events_data),
                          IF \E i \in 1..Len(seen) : seen[i] = t THEN seen ELSE Append(seen, t))

EventsOfType(events_data, t) == SelectSeq(events_data, LAMBDA e : e.event_type = t)

\* the _handle_events calls of one group; batch tells the flushes apart: the number
\* of items flushed before this one
HandleCalls(q, t, events) ==
    LET hs == IF t \in DOMAIN handlers THEN handlers[t] ELSE <<>>
    IN  [i \in 1..Len(hs) |-> [queue |-> q, handler |-> hs[i], events |-> events,
                             status |-> "running", batch |-> Len(hist.flushed)]]

\* the tasks _route_to_handlers gathers
RECURSIVE GatherTasks(_, _, _)
GatherTasks(q, types, events_data) ==
    IF types = <<>>
    THEN <<>>
    ELSE HandleCalls(q, Head(types), EventsOfType(events_data, Head(types)))
             \o GatherTasks(q, Tail(types), events_data)

RouteToHandlers(q, events_data) == GatherTasks(q, TypesInOrder(events_data, <<>>), events_data)

\* process_event_batch up to its await: the handler calls it starts
ProcessEventBatch(q, event_batch) ==
    LET d == DecodeBatch(event_batch, 1, <<>>)
    IN  IF d.returned THEN <<>> ELSE RouteToHandlers(q, d.base_events)

\* a for loop that ends after every item
BatchFull_Single(event_batch, batch_size) == Len(event_batch) >= 1

\* the for loop ran batch_size times
BatchFull(event_batch, batch_size) == Len(event_batch) >= batch_size

\* where the consumer goes when it is back at `while self._running`
LoopTop == IF running THEN "pop" ELSE "ended"

Pushed == Len(hist.published) + hist.external
Popped == hist.popped

\* publish_async(event of type t)
PublishAsync(t) ==
    /\ Pushed < MaxPushed
    /\ IF t \notin DOMAIN event_to_queue
       THEN /\ publish_result' = "KeyError"
            /\ UNCHANGED <<broker, hist>>
       ELSE LET e == [event_type |-> t, content |-> Pushed + 1]
                q == event_to_queue[t]
            IN  /\ broker' = [broker EXCEPT ![q] = Append(@, ModelDumpJson(e))]
                /\ publish_result' = "ok"
                /\ hist' = [hist EXCEPT !.published = Append(@, e),
                                        !.late = @ \/ Popped > 0]
    /\ UNCHANGED <<queues, handlers, event_to_queue, running, tasks, invocations>>
    /\ UNCHANGED <<stopping, subscribe_result, storeVars, trafficVars, registryVars, runtimeVars, articleVars, platformVars>>

\* a producer outside the bus left-pushes an item on the list of queue q
ExternalPush(q, kind) ==
    /\ Pushed < MaxPushed
    /\ broker' = [broker EXCEPT ![q] = <<ExternalItem(kind, Pushed + 1)>> \o @]
    /\ hist' = [hist EXCEPT !.external = @ + 1]
    /\ UNCHANGED <<queues, handlers, event_to_queue, running, tasks, invocations, publish_result>>
    /\ UNCHANGED <<stopping, subscribe_result, storeVars, trafficVars, registryVars, runtimeVars, articleVars, platformVars>>

\* `if event_batch: await process_event_batch(event_batch)` and back to the loop top
\* when nothing is awaited
Flush(q, event_batch) ==
    LET calls == ProcessEventBatch(q, event_batch)
    IN  /\ invocations' = invocations \o calls
        /\ tasks' = [tasks EXCEPT ![q] = [pc |-> IF calls = <<>> THEN LoopTop ELSE "handling",
                                         batch |-> <<>>]]

\* blpop returns an item
BlpopItem(q) ==
    /\ q \in DOMAIN tasks /\ tasks[q].pc = "pop"
    /\ broker[q] # <<>>
    /\ LET event_batch == Append(tasks[q].batch, Head(broker[q]))
       IN  /\ broker' = [broker EXCEPT ![q] = Tail(@)]
           /\ IF BatchFull(event_batch, queues[q].batch_size)
              THEN /\ Flush(q, event_batch)
                   /\ hist' = [hist EXCEPT !.popped = @ + 1, !.flushed = @ \o event_batch]
              ELSE /\ tasks' = [tasks EXCEPT ![q].batch = event_batch]
                   /\ hist' = [hist EXCEPT !.popped = @ + 1]
                   /\ UNCHANGED invocations
    /\ UNCHANGED <<queues, handlers, event_to_queue, running, publish_result>>
    /\ UNCHANGED <<stopping, subscribe_result, storeVars, trafficVars, registryVars, runtimeVars, articleVars, platformVars>>

\* blpop times out on the empty list with a non-empty event_batch
BlpopTimeout(q) ==
    /\ q \in DOMAIN tasks /\ tasks[q].pc = "pop"
    /\ broker[q] = <<>>
    /\ tasks[q].batch # <<>>
    /\ Flush(q, tasks[q].batch)
    /\ hist' = [hist EXCEPT !.flushed = @ \o tasks[q].batch]
    /\ UNCHANGED <<queues, handlers, event_to_queue, running, broker, publish_result>>
    /\ UNCHANGED <<stopping, subscribe_result, storeVars, trafficVars, registryVars, runtimeVars, articleVars, platformVars>>

\* blpop raises: the loop logs and sleeps, event_batch is gone
BlpopError(q) ==
    /\ q \in DOMAIN tasks /\ tasks[q].pc = "pop"
    /\ hist.popErrors < MaxPopErrors
    /\ tasks' = [tasks EXCEPT ![q] = [pc |-> "backoff", batch |-> <<>>]]
    /\ hist' = [hist EXCEPT !.popErrors = @ + 1]
    /\ UNCHANGED <<queues, handlers, event_to_queue, running, broker, invocations, publish_result>>
    /\ UNCHANGED <<stopping, subscribe_result, storeVars, trafficVars, registryVars, runtimeVars, articleVars, platformVars>>

\* asyncio.sleep(1) is over
Backoff(q) ==
    /\ q \in DOMAIN tasks /\ tasks[q].pc = "backoff"
    /\ tasks' = [tasks EXCEPT ![q].pc = LoopTop]
    /\ UNCHANGED <<queues, handlers, event_to_queue, running, broker, invocations,
                   publish_result, hist>>
    /\ UNCHANGED <<stopping, subscribe_result, storeVars, trafficVars, registryVars, runtimeVars, articleVars, platformVars>>

\* a gather in which the exception of one handler cancels the handlers still running
Gathered_Propagating(invs, i, ok) ==
    [j \in 1..Len(invs) |->
        IF j = i THEN [invs[j] EXCEPT !.status = IF ok THEN "returned" ELSE "raised"]
        ELSE IF ~ok /\ invs[j].batch = invs[i].batch /\ invs[j].status = "running"
             THEN [invs[j] EXCEPT !.status = "cancelled"]
             ELSE invs[j]]

\* asyncio.gather(*tasks, return_exceptions=True): the i-th call returns (ok) or
\* raises, the other calls are left alone
Gathered(invs, i, ok) ==
    [invs EXCEPT ![i].status = IF ok THEN "returned" ELSE "raised"]

\* a handler call of queue q is still running
Handling(invs, q) == \E j \in 1..Len(invs) : invs[j].queue = q /\ invs[j].status = "running"

\* handler.handle of the i-th invocation returns (ok) or raises; the gather is over
\* when it was the last one running
HandleReturns(i, ok) ==
    /\ i \in 1..Len(invocations)
    /\ invocations[i].status = "running"
    /\ invocations' = Gathered(invocations, i, ok)
    /\ LET q == invocations[i].queue
       IN  IF Handling(invocations', q)
           THEN UNCHANGED tasks
           ELSE tasks' = [tasks EXCEPT ![q].pc = LoopTop]
    /\ UNCHANGED <<queues, handlers, event_to_queue, running, broker, publish_result, hist>>
    /\ UNCHANGED <<stopping, subscribe_result, storeVars, trafficVars, registryVars, runtimeVars, articleVars, platformVars>>

\* a faulty variant of CancelConsumer: the consumer is not cancelled
CancelConsumer_Ignored(task) == task

\* task.cancel() on the consumer of queue q: CancelledError is raised at the await the
\* task is at and ends the loop; at the gather of _route_to_handlers the cancellation
\* first goes to the handler calls still running
CancelConsumer(task) == [pc |-> "ended", batch |-> <<>>]


\* the handler calls of queue q after its consumer was cancelled while awaiting them
CancelHandlers(invs, q) ==
    [j \in 1..Len(invs) |->
        IF invs[j].queue = q /\ invs[j].status = "running"
        THEN [invs[j] EXCEPT !.status = "cancelled"]
        ELSE invs[j]]

\* the handler calls after every consumer of the queues qs was cancelled
RECURSIVE CancelAll(_, _)
CancelAll(invs, qs) ==
    IF qs = {}
    THEN invs
    ELSE LET q == CHOOSE x \in qs : TRUE
         IN  CancelAll(CancelHandlers(invs, q), qs \ {q})

\* stop() on a running bus, up to `await asyncio.gather(*self._tasks.values())`
Stop ==
    /\ running
    /\ ~stopping
    /\ running' = FALSE
    /\ stopping' = TRUE
    /\ tasks' = [q \in DOMAIN tasks |->
                    IF tasks[q].pc = "ended" THEN tasks[q] ELSE CancelConsumer(tasks[q])]
    /\ invocations' = CancelAll(invocations, {q \in DOMAIN tasks : tasks[q].pc = "handling"})
    /\ UNCHANGED <<queues, handlers, event_to_queue, broker, publish_result, hist>>
    /\ UNCHANGED <<subscribe_result, storeVars, trafficVars, registryVars, runtimeVars, articleVars, platformVars>>

\* stop(): the consumer tasks have ended, the task table is cleared
StopReturns ==
    /\ stopping
    /\ \A q \in DOMAIN tasks : tasks[q].pc = "ended"
    /\ tasks' = NoMap
    /\ stopping' = FALSE
    /\ UNCHANGED <<queues, handlers, event_to_queue, running, broker, invocations,
                   publish_result, hist>>
    /\ UNCHANGED <<subscribe_result, storeVars, trafficVars, registryVars, runtimeVars, articleVars, platformVars>>

\* no subscribe call was made yet
NoSubscribe == [queue |-> "none", handler |-> "none", raised |-> FALSE]

CurrentBus == [queues |-> queues, handlers |-> handlers, event_to_queue |-> event_to_queue]

\* register_queue(queue_name, batch_size) is called
RegisterQueueCall(queue_name, batch_size) ==
    /\ queues' = RegisterQueue(CurrentBus, queue_name, batch_size).queues
    /\ UNCHANGED <<handlers, event_to_queue, running, tasks, broker, invocations,
                   publish_result, stopping, subscribe_result, hist>>
    /\ UNCHANGED <<storeVars, trafficVars, registryVars, runtimeVars, articleVars, platformVars>>

\* subscribe(queue_name, handler) is called
SubscribeCall(queue_name, h) ==
    LET r == Subscribe(CurrentBus, queue_name, h)
    IN  /\ handlers' = r.bus.handlers
        /\ event_to_queue' = r.bus.event_to_queue
        /\ subscribe_result' = [queue |-> queue_name, handler |-> h, raised |-> r.raised]
        /\ hist' = [hist EXCEPT !.bound = @ \cup
                        {<<t, queue_name>> : t \in DOMAIN r.bus.event_to_queue \ DOMAIN event_to_queue}]
        /\ UNCHANGED <<queues, running, tasks, broker, invocations, publish_result, stopping>>
        /\ UNCHANGED <<storeVars, trafficVars, registryVars, runtimeVars, articleVars, platformVars>>

(***************************************************************************)
(* ArticleService and ArticlePredictionsRepository.  A process_articles    *)
(* call handles one batch; every (article, predictor) pair of a prediction *)
(* type is one task of asyncio.gather, run under the call's semaphore.     *)
(* A text is a sequence of characters; None is the text <<"None">>.        *)
(***************************************************************************)
SENTIMENT_PREDICTION_TYPE == "sentiment_analysis"
NEWS_CLASSIFICATION_PREDICTION_TYPE == "news_classification"
\* ArticleService.sentiment_predictors: the versions that have an instance
sentiment_predictors == {1, 2}
\* ArticleService.news_classification_predictors
news_classification_predictors == {1}
\* ArticleService.concurrent_predictions (its default)
concurrent_predictions == 1
\* the two _process_prediction_type calls of process_articles, in their order
PredictionTypes ==
    <<[prediction_type |-> SENTIMENT_PREDICTION_TYPE, instances |-> sentiment_predictors],
      [prediction_type |-> NEWS_CLASSIFICATION_PREDICTION_TYPE, instances |-> news_classification_predictors]>>

None == <<"None">>
\* the articles an event may carry: a1 and a3 have a text, a2 has none
ArticlePool ==
    { [id |-> "a1", title |-> <<"t">>, description |-> None],
      [id |-> "a2", title |-> None, description |-> <<" ">>],
      [id |-> "a3", title |-> <<>>, description |-> <<"d">>] }
\* the batches a handler may pass: no article twice in one batch
ArticleBatches ==
    {b \in UNION {[1..n -> ArticlePool] : n \in 0..MaxArticles} :
        \A i, j \in 1..Len(b) : i # j => b[i].id # b[j].id}

PredictorRow(id, t, v, p) ==
    [id |-> id, prediction_type |-> t, predictor_version |-> v, traffic_percentage |-> p]
\* the registries a batch may meet: both sentiment versions active; only a sentiment
\* version without an instance active; an unknown version next to a known one and no
\* news predictor
SeedCatalogs ==
    { { PredictorRow("s1", SENTIMENT_PREDICTION_TYPE, 1, 50),
        PredictorRow("s2", SENTIMENT_PREDICTION_TYPE, 2, 50),
        PredictorRow("n1", NEWS_CLASSIFICATION_PREDICTION_TYPE, 1, 100) },
      { PredictorRow("s1", SENTIMENT_PREDICTION_TYPE, 1, 0),
        PredictorRow("s3", SENTIMENT_PREDICTION_TYPE, 3, 100),
        PredictorRow("n1", NEWS_CLASSIFICATION_PREDICTION_TYPE, 1, 100) },
      { PredictorRow("s1", SENTIMENT_PREDICTION_TYPE, 1, 50),
        PredictorRow("s3", SENTIMENT_PREDICTION_TYPE, 3, 50) } }
PredictorIds == {"s1", "s2", "s3", "n1"}

\* PredictorService.find_predictors_by_prediction_type on the registry of both types: newest version first
FindPredictorsOfType(prediction_type, only_actives) ==
    LET rows == {r \in catalog : /\ r.prediction_type = prediction_type
                                 /\ (only_actives => r.traffic_percentage > 0)}
    IN  CHOOSE s \in [1..Cardinality(rows) -> rows] :
            \A i, j \in 1..Cardinality(rows) :
                i < j => s[i].predictor_version > s[j].predictor_version

\* the loop that keeps the active predictors whose version has an instance
PredictorInstances(active_predictors, predictor_instances_map) ==
    SelectSeq(active_predictors, LAMBDA p : p.predictor_version \in predictor_instances_map)

\* a faulty variant of RandomPredictors: the first of the list is always taken
RandomPredictors_Newest(active_predictors) ==
    IF Len(active_predictors) = 0 THEN {} ELSE {active_predictors[1]}

\* the predictors random.choices may return: those of positive weight
RandomPredictors(active_predictors) ==
    {active_predictors[i] : i \in {k \in 1..Len(active_predictors) :
                                      active_predictors[k].traffic_percentage > 0}}

\* str.strip
RECURSIVE LStrip(_)
LStrip(s) == IF Len(s) > 0 /\ Head(s) = " " THEN LStrip(Tail(s)) ELSE s
RECURSIVE RStrip(_)
RStrip(s) == IF Len(s) > 0 /\ s[Len(s)] = " " THEN RStrip(SubSeq(s, 1, Len(s) - 1)) ELSE s
Strip(s) == RStrip(LStrip(s))
OrEmpty(s) == IF s = None THEN <<>> ELSE s
\* f"{article.title or ''} {article.description or ''}".strip()
TextToAnalyze(article) == Strip(OrEmpty(article.title) \o <<" ">> \o OrEmpty(article.description))

(***************************************************************************)
(* The "article_predictions" collection.  A document is a function from    *)
(* field names to values; an update names its fields by their dotted       *)
(* paths.  _id, created_at and updated_at are left out.                    *)
(***************************************************************************)
SetField(f, k, v) == (k :> v) @@ f
SetPath(doc, path, value) ==
    IF Len(path) = 1 THEN SetField(doc, path[1], value)
    ELSE LET sub == IF path[1] \in DOMAIN doc THEN doc[path[1]] ELSE NoMap
         IN  SetField(doc, path[1], SetField(sub, path[2], value))
\* $set and $setOnInsert
RECURSIVE ApplySet(_, _)
ApplySet(doc, fields) ==
    IF DOMAIN fields = {} THEN doc
    ELSE LET path == CHOOSE p \in DOMAIN fields : TRUE
         IN  ApplySet(SetPath(doc, path, fields[path]),
                      [p \in DOMAIN fields \ {path} |-> fields[p]])

\* faulty variants of the update document
UpdateDoc_SelectOnly(article_id, prediction_type, predictor_id, prediction_doc, set_as_selected) ==
    [set |-> IF set_as_selected THEN (<<"selected_prediction">> :> predictor_id)
             ELSE (<<"predictions", predictor_id>> :> prediction_doc),
     setOnInsert |-> (<<"article_id">> :> article_id) @@ (<<"prediction_type">> :> prediction_type)]
UpdateDoc_Wholesale(article_id, prediction_type, predictor_id, prediction_doc, set_as_selected) ==
    [set |-> (<<"predictions">> :> (predictor_id :> prediction_doc)) @@
             (IF set_as_selected THEN (<<"selected_prediction">> :> predictor_id) ELSE NoMap),
     setOnInsert |-> (<<"article_id">> :> article_id) @@ (<<"prediction_type">> :> prediction_type)]
\* update_doc of upsert_prediction
UpdateDoc(article_id, prediction_type, predictor_id, prediction_doc, set_as_selected) ==
    [set |-> (<<"predictions", predictor_id>> :> prediction_doc) @@
             (IF set_as_selected THEN (<<"selected_prediction">> :> predictor_id) ELSE NoMap),
     setOnInsert |-> (<<"article_id">> :> article_id) @@ (<<"prediction_type">> :> prediction_type)]

Matching(coll, article_id, prediction_type) ==
    {d \in coll : d["article_id"] = article_id /\ d["prediction_type"] = prediction_type}
\* collection.find_one_and_update(filter, update_doc, upsert=True, return_document=True):
\* one atomic operation of the store
FindOneAndUpdate(coll, article_id, prediction_type, update_doc) ==
    LET found == Matching(coll, article_id, prediction_type)
    IN  IF found # {}
        THEN LET d == CHOOSE x \in found : TRUE
                 new == ApplySet(d, update_doc.set)
             IN  [coll |-> (coll \ {d}) \cup {new}, result |-> new]
        ELSE LET new == ApplySet(ApplySet(NoMap, update_doc.setOnInsert), update_doc.set)
             IN  [coll |-> coll \cup {new}, result |-> new]

\* BaseRepository._to_model: ArticlePredictionsDocument(**document).  selected_predictor_id
\* is required, selected_prediction is a PredictionDocument or None, and
\* validate_selected_prediction wants the selected id among the predictions.
ToModel(document) ==
    IF "selected_predictor_id" \notin DOMAIN document
    THEN [ok |-> FALSE, error |-> "ValidationError"]
    ELSE IF "selected_prediction" \in DOMAIN document /\ document["selected_prediction"] \in PredictorIds
    THEN [ok |-> FALSE, error |-> "ValidationError"]
    ELSE IF document["selected_predictor_id"] \notin DOMAIN document["predictions"]
    THEN [ok |-> FALSE, error |-> "ValidationError"]
    ELSE [ok |-> TRUE, model |-> document]

\* db_to_domain_article_predictions
DbToDomainArticlePredictions(db_model) ==
    [article_id |-> db_model["article_id"],
     prediction_type |-> db_model["prediction_type"],
     selected_predictor_id |-> db_model["selected_predictor_id"],
     predictions |-> db_model["predictions"]]

(***************************************************************************)
(* process_articles                                                        *)
(***************************************************************************)
CallEnded(call) == call.pc \in {"returned", "raised"}
ForwardErrors ==
    Cardinality({<<c, i>> \in (1..Len(pcalls)) \X (1..(MaxArticles * 2)) :
                    i <= Len(pcalls[c].tasks) /\ pcalls[c].tasks[i].error = "ForwardError"})

\* process_articles(articles): the handler awaits it, so the consumer makes the next
\* call when this one has returned or raised
ProcessArticles(articles) ==
    /\ Len(pcalls) < MaxBatches
    /\ \A c \in 1..Len(pcalls) : CallEnded(pcalls[c])
    /\ pcalls' = Append(pcalls,
                   [articles |-> articles,
                    pc |-> IF Len(articles) = 0 THEN "returned" ELSE "type",
                    type |-> 1, tasks |-> <<>>, semaphore |-> 0,
                    all_predictions |-> <<>>, error |-> "none"])
    /\ UNCHANGED <<catalog, article_predictions, storeVars, trafficVars, registryVars,
                   runtimeVars, busVars, platformVars>>

\* process_articles after one _process_prediction_type call has returned
AfterType(call) ==
    IF call.type = Len(PredictionTypes) THEN [call EXCEPT !.pc = "returned"]
    ELSE [call EXCEPT !.pc = "type", !.type = @ + 1]

\* _process_prediction_type up to gather: the tasks of every (article, predictor) pair
ProcessPredictionType(c) ==
    /\ c \in 1..Len(pcalls)
    /\ pcalls[c].pc = "type"
    /\ LET call == pcalls[c]
           pt == PredictionTypes[call.type]
           active_predictors == FindPredictorsOfType(pt.prediction_type, TRUE)
           predictor_instances == PredictorInstances(active_predictors, pt.instances)
           n == Len(predictor_instances)
       IN  IF n = 0
           THEN pcalls' = [pcalls EXCEPT ![c] = AfterType(call)]
           ELSE \E selected \in [1..Len(call.articles) -> RandomPredictors(active_predictors)] :
                  pcalls' = [pcalls EXCEPT ![c] =
                      [call EXCEPT
                         !.pc = "gather",
                         !.semaphore = concurrent_predictions,
                         !.tasks = [x \in 1..(Len(call.articles) * n) |->
                             LET a == ((x - 1) \div n) + 1
                                 k == ((x - 1) % n) + 1
                             IN  [article |-> call.articles[a],
                                  predictor |-> predictor_instances[k],
                                  is_selected |-> predictor_instances[k].predictor_version
                                                  = selected[a].predictor_version,
                                  pc |-> "semaphore", value |-> 0,
                                  error |-> "none", result |-> NoMap]]]]
    /\ UNCHANGED <<catalog, article_predictions, storeVars, trafficVars, registryVars,
                   runtimeVars, busVars, platformVars>>

\* a task ends: "async with semaphore" releases, and gather, if it is still awaited,
\* raises the task's exception or returns when every task has returned
Finish(call, i, task) ==
    LET tasks1 == [call.tasks EXCEPT ![i] = task]
        released == [call EXCEPT !.tasks = tasks1, !.semaphore = @ + 1]
    IN  IF call.pc # "gather" THEN released
        ELSE IF task.pc = "raised" THEN [released EXCEPT !.pc = "raised", !.error = task.error]
        ELSE IF \A j \in 1..Len(tasks1) : tasks1[j].pc = "done"
        THEN AfterType([released EXCEPT
                          !.all_predictions = @ \o [j \in 1..Len(tasks1) |-> tasks1[j].result]])
        ELSE released

\* asyncio.Semaphore.locked(): "async with semaphore" waits while it holds
SemaphoreLocked(call) == call.semaphore = 0

\* predict_with_semaphore enters the semaphore, in the order the tasks were made, and
\* _make_prediction_and_save runs up to its first await
Acquire(c, i) ==
    /\ c \in 1..Len(pcalls)
    /\ i \in 1..Len(pcalls[c].tasks)
    /\ pcalls[c].tasks[i].pc = "semaphore"
    /\ ~SemaphoreLocked(pcalls[c])
    /\ \A j \in 1..(i - 1) : pcalls[c].tasks[j].pc # "semaphore"
    /\ LET call == [pcalls[c] EXCEPT !.semaphore = @ - 1]
           task == call.tasks[i]
       IN  pcalls' = [pcalls EXCEPT ![c] =
              IF TextToAnalyze(task.article) = <<>>
              THEN Finish(call, i, [task EXCEPT !.pc = "raised", !.error = "ValueError"])
              ELSE [call EXCEPT !.tasks[i].pc = "forward"]]
    /\ UNCHANGED <<catalog, article_predictions, storeVars, trafficVars, registryVars,
                   runtimeVars, busVars, platformVars>>

\* predictor_instance.forward returns its prediction
ForwardReturns(c, i) ==
    /\ c \in 1..Len(pcalls)
    /\ i \in 1..Len(pcalls[c].tasks)
    /\ pcalls[c].tasks[i].pc = "forward"
    /\ pcalls' = [pcalls EXCEPT ![c].tasks[i].pc = "upsert", ![c].tasks[i].value = c]
    /\ UNCHANGED <<catalog, article_predictions, storeVars, trafficVars, registryVars,
                   runtimeVars, busVars, platformVars>>

\* predictor_instance.forward raises
ForwardRaises(c, i) ==
    /\ c \in 1..Len(pcalls)
    /\ i \in 1..Len(pcalls[c].tasks)
    /\ pcalls[c].tasks[i].pc = "forward"
    /\ ForwardErrors < MaxForwardErrors
    /\ pcalls' = [pcalls EXCEPT ![c] =
          Finish(pcalls[c], i, [pcalls[c].tasks[i] EXCEPT !.pc = "raised", !.error = "ForwardError"])]
    /\ UNCHANGED <<catalog, article_predictions, storeVars, trafficVars, registryVars,
                   runtimeVars, busVars, platformVars>>

\* upsert_prediction: the store applies the update, _to_model validates what it returned
UpsertPrediction(c, i) ==
    /\ c \in 1..Len(pcalls)
    /\ i \in 1..Len(pcalls[c].tasks)
    /\ pcalls[c].tasks[i].pc = "upsert"
    /\ LET task == pcalls[c].tasks[i]
           prediction_doc == [prediction_value |-> task.value]
           update_doc == UpdateDoc(task.article.id, task.predictor.prediction_type,
                                   task.predictor.id, prediction_doc, task.is_selected)
           updated == FindOneAndUpdate(article_predictions, task.article.id,
                                       task.predictor.prediction_type, update_doc)
           stored_prediction == ToModel(updated.result)
       IN  /\ article_predictions' = updated.coll
           /\ pcalls' = [pcalls EXCEPT ![c] =
                 IF stored_prediction.ok
                 THEN Finish(pcalls[c], i,
                             [task EXCEPT !.pc = "done",
                                          !.result = DbToDomainArticlePredictions(stored_prediction.model)])
                 ELSE Finish(pcalls[c], i,
                             [task EXCEPT !.pc = "raised", !.error = stored_prediction.error])]
    /\ UNCHANGED <<catalog, storeVars, trafficVars, registryVars, runtimeVars, busVars, platformVars>>

(***************************************************************************)
(* Weighted selection (PredictorService.get_random_predictor)              *)
(***************************************************************************)
NoPredictor == PredictorRow("none", "none", 0, 0)
NoPick == [prediction_type |-> "none", ok |-> TRUE, error |-> "none", predictor |-> NoPredictor]

\* the traffic percentages of the registries get_random_predictor is called on
SelectionTraffic == {0, 25, 50, 75, 100}
\* two sentiment versions and one news classification version, at any of these
SelectionCatalogs ==
    { { PredictorRow("s1", SENTIMENT_PREDICTION_TYPE, 1, a),
        PredictorRow("s2", SENTIMENT_PREDICTION_TYPE, 2, b),
        PredictorRow("n1", NEWS_CLASSIFICATION_PREDICTION_TYPE, 1, c) } :
      a \in SelectionTraffic, b \in SelectionTraffic, c \in {0, 100} }

Raised(error) == [ok |-> FALSE, error |-> error, predictor |-> NoPredictor]

\* the outcomes of get_random_predictor on a list: the ValueError of the empty
\* list, the ValueError of random.choices when no weight is positive, or one of the
\* predictors random.choices may return
GetRandomPredictor(active_predictors) ==
    IF Len(active_predictors) = 0
    THEN {Raised("No active predictors found")}
    ELSE IF RandomPredictors(active_predictors) = {}
         THEN {Raised("Total of weights must be greater than zero")}
         ELSE {[ok |-> TRUE, error |-> "none", predictor |-> p] :
                  p \in RandomPredictors(active_predictors)}

\* get_random_predictor(prediction_type) is called without a list: the active
\* predictors are read from the registry
GetRandomPredictorCall(prediction_type) ==
    /\ \E r \in GetRandomPredictor(FindPredictorsOfType(prediction_type, TRUE)) :
          pick' = [prediction_type |-> prediction_type, ok |-> r.ok, error |-> r.error,
                   predictor |-> r.predictor]
    /\ UNCHANGED <<runtimes, cleanup, lifecycle, publish_task, orphans>>
    /\ UNCHANGED <<storeVars, trafficVars, registryVars, runtimeVars, busVars, articleVars>>

(***************************************************************************)
(* EventBus.start, stop on a stopped bus, publish                          *)
(***************************************************************************)
NoLifecycle == [call |-> "none", raised |-> FALSE, n |-> 0]

\* a faulty variant of StartTasks: no consumer is created
StartTasks_None(qs) == NoMap

\* start(): the loop that creates one _start_event_queue task per registered queue
StartTasks(qs) == [q \in DOMAIN qs |-> [pc |-> "pop", batch |-> <<>>]]

\* start() on a bus that is not running; the ping answers (ok) or raises
Start(ok) ==
    /\ ~running
    /\ ~stopping
    /\ lifecycle.n < MaxLifecycleCalls
    /\ lifecycle' = [call |-> "start", raised |-> ~ok, n |-> lifecycle.n + 1]
    /\ IF ok
       THEN /\ running' = TRUE
            /\ tasks' = StartTasks(queues)
       ELSE UNCHANGED <<running, tasks>>
    /\ UNCHANGED <<queues, handlers, event_to_queue, broker, invocations, publish_result,
                   stopping, subscribe_result, hist>>
    /\ UNCHANGED <<runtimes, cleanup, pick, publish_task, orphans>>
    /\ UNCHANGED <<storeVars, trafficVars, registryVars, runtimeVars, articleVars>>

\* the consumer tasks of each queue that are alive and that _tasks does not refer to
NoOrphans == [q \in ConfigQueues |-> 0]

LiveInTable(q) == q \in DOMAIN tasks /\ tasks[q].pc # "ended"

\* start() on a bus that is running: "Already running" is logged and the call goes
\* on; the ping answers (ok) or raises; the loop puts a new task in _tasks for every
\* registered queue, and the task that was there is no longer referred to
StartRunning(ok) ==
    /\ running
    /\ ~stopping
    /\ lifecycle.n < MaxLifecycleCalls
    /\ lifecycle' = [call |-> "start", raised |-> ~ok, n |-> lifecycle.n + 1]
    /\ IF ok
       THEN /\ tasks' = StartTasks(queues)
            /\ orphans' = [q \in ConfigQueues |->
                              IF q \in DOMAIN queues /\ LiveInTable(q) THEN orphans[q] + 1
                              ELSE orphans[q]]
       ELSE UNCHANGED <<tasks, orphans>>
    /\ UNCHANGED <<queues, handlers, event_to_queue, running, broker, invocations,
                   publish_result, stopping, subscribe_result, hist>>
    /\ UNCHANGED <<runtimes, cleanup, pick, publish_task>>
    /\ UNCHANGED <<storeVars, trafficVars, registryVars, runtimeVars, articleVars>>

\* a consumer that _tasks does not refer to finds _running false at the top of its
\* loop and returns
OrphanReturns(q) ==
    /\ ~running
    /\ orphans[q] > 0
    /\ orphans' = [orphans EXCEPT ![q] = @ - 1]
    /\ UNCHANGED <<runtimes, cleanup, pick, lifecycle, publish_task>>
    /\ UNCHANGED <<storeVars, trafficVars, registryVars, runtimeVars, busVars, articleVars>>

\* stop() on a bus that is not running: the warning and the return
StopAlready ==
    /\ ~running
    /\ ~stopping
    /\ lifecycle.n < MaxLifecycleCalls
    /\ lifecycle' = [call |-> "stop", raised |-> FALSE, n |-> lifecycle.n + 1]
    /\ UNCHANGED <<runtimes, cleanup, pick, publish_task, orphans>>
    /\ UNCHANGED <<storeVars, trafficVars, registryVars, runtimeVars, busVars, articleVars>>

\* publish_async(event of type t) whose rpush raises
PublishAsyncRaises(t) ==
    /\ t \in DOMAIN event_to_queue
    /\ publish_result' = "ConnectionError"
    /\ UNCHANGED <<queues, handlers, event_to_queue, running, tasks, broker, invocations,
                   stopping, subscribe_result, hist>>
    /\ UNCHANGED platformVars
    /\ UNCHANGED <<storeVars, trafficVars, registryVars, runtimeVars, articleVars>>

\* publish(event of type t): asyncio.create_task(publish_async(event)) and the
\* return of None; the task then runs publish_async, whose rpush answers (ok) or
\* raises, and nobody awaits the task
Publish(t, ok) ==
    /\ Pushed < MaxPushed
    /\ publish_result' = "None"
    /\ IF t \notin DOMAIN event_to_queue
       THEN /\ publish_task' = "KeyError"
            /\ UNCHANGED <<broker, hist>>
       ELSE IF ~ok
       THEN /\ publish_task' = "ConnectionError"
            /\ UNCHANGED <<broker, hist>>
       ELSE LET e == [event_type |-> t, content |-> Pushed + 1]
                q == event_to_queue[t]
            IN  /\ broker' = [broker EXCEPT ![q] = Append(@, ModelDumpJson(e))]
                /\ publish_task' = "ok"
                /\ hist' = [hist EXCEPT !.published = Append(@, e),
                                        !.late = @ \/ Popped > 0]
    /\ UNCHANGED <<queues, handlers, event_to_queue, running, tasks, invocations,
                   stopping, subscribe_result>>
    /\ UNCHANGED <<runtimes, cleanup, pick, lifecycle, orphans>>
    /\ UNCHANGED <<storeVars, trafficVars, registryVars, runtimeVars, articleVars>>

(***************************************************************************)
(* Shutdown (MLPlatformSetup.cleanup_resources).  Every runtime is reduced *)
(* to _loaded, its pending _unload_task and the forward a handler has in   *)
(* flight on it; the idle unload is taken in one step.                     *)
(***************************************************************************)
\* the predictor providers cleanup_resources names
Runtimes == {"sentiment_analysis_predictor_v1", "sentiment_analysis_predictor_v2",
             "news_classification_predictor_v1", "news_classification_predictor_v2"}

\* the providers behind the four parameters cleanup_resources unloads, in the order
\* of its manual_unload calls; sentiment_predictor_v2 is wired to the v1 provider
CleanupTargets ==
    <<"sentiment_analysis_predictor_v1", "sentiment_analysis_predictor_v1",
      "news_classification_predictor_v1", "news_classification_predictor_v2">>

\* a runtime after setup, idle: unloaded, or loaded by a forward that has returned
\* and scheduled the idle unload
IdleRuntime(l) == [loaded |-> l, timer |-> l, forward |-> "idle"]

NoCleanup == [pc |-> "idle", i |-> 0, forwards |-> 0]

ForwardInFlight(rt) == rt.forward \in {"loading", "forwarding"}

\* the consumer tasks are cancelled: CancelledError ends the forwards of their handlers
CancelForwards(rts) ==
    [r \in Runtimes |-> IF ForwardInFlight(rts[r]) THEN [rts[r] EXCEPT !.forward = "cancelled"]
                        ELSE rts[r]]

\* cleanup_resources from its i-th manual_unload call to its next await that
\* suspends: manual_unload cancels the timer and awaits unload_predictor only when
\* the runtime is loaded; after the last one event_bus.stop() cancels the consumers
RECURSIVE RunCleanup(_, _, _)
RunCleanup(rts, c, i) ==
    IF i > Len(CleanupTargets)
    THEN [runtimes |-> IF running THEN CancelForwards(rts) ELSE rts,
          cleanup |-> [c EXCEPT !.pc = "done", !.i = i],
          running |-> FALSE]
    ELSE LET r == CleanupTargets[i]
             cancelled == [rts EXCEPT ![r].timer = FALSE]
         IN  IF rts[r].loaded
             THEN [runtimes |-> cancelled, cleanup |-> [c EXCEPT !.pc = "unloading", !.i = i],
                   running |-> running]
             ELSE RunCleanup(cancelled, c, i + 1)

shutdownFrame == <<queues, handlers, event_to_queue, broker, invocations, publish_result,
                   stopping, subscribe_result, hist, pick, lifecycle, publish_task, orphans,
                   storeVars, trafficVars, registryVars, runtimeVars, articleVars>>

\* a handler of a running bus calls forward on runtime r: up to the first await
HandlerForward(r) ==
    /\ running
    /\ cleanup.forwards < MaxShutdownForwards
    /\ ~ForwardInFlight(runtimes[r])
    /\ runtimes' = [runtimes EXCEPT ![r] =
                       IF runtimes[r].loaded
                       THEN [@ EXCEPT !.timer = FALSE, !.forward = "forwarding"]
                       ELSE [@ EXCEPT !.forward = "loading"]]
    /\ cleanup' = [cleanup EXCEPT !.forwards = @ + 1]
    /\ UNCHANGED <<running, tasks, shutdownFrame>>

\* load_predictor of the forward has returned (ok) or raised
HandlerLoadReturns(r, ok) ==
    /\ runtimes[r].forward = "loading"
    /\ runtimes' = [runtimes EXCEPT ![r] =
                       IF ok THEN [@ EXCEPT !.loaded = TRUE, !.timer = FALSE, !.forward = "forwarding"]
                       ELSE [@ EXCEPT !.forward = "raised"]]
    /\ UNCHANGED <<cleanup, running, tasks, shutdownFrame>>

\* _forward and the metrics of the forward have returned (ok): the idle unload is
\* scheduled; or _forward has raised
HandlerForwardReturns(r, ok) ==
    /\ runtimes[r].forward = "forwarding"
    /\ runtimes' = [runtimes EXCEPT ![r] =
                       IF ok THEN [@ EXCEPT !.timer = TRUE, !.forward = "returned"]
                       ELSE [@ EXCEPT !.forward = "raised"]]
    /\ UNCHANGED <<cleanup, running, tasks, shutdownFrame>>

\* _unload_after_timeout: the sleep is over
TimerFires(r) ==
    /\ runtimes[r].timer
    /\ ~(cleanup.pc = "unloading" /\ CleanupTargets[cleanup.i] = r)
    /\ runtimes' = [runtimes EXCEPT ![r].timer = FALSE, ![r].loaded = FALSE]
    /\ UNCHANGED <<cleanup, running, tasks, shutdownFrame>>

\* cleanup_resources has run to its next await, or to its end: stop() on the
\* running bus leaves it stopped with the task table cleared
Suspended(next) ==
    /\ runtimes' = next.runtimes
    /\ cleanup' = next.cleanup
    /\ running' = next.running
    /\ tasks' = IF next.running THEN tasks ELSE NoMap

\* cleanup_resources is called
CleanupResources ==
    /\ cleanup.pc = "idle"
    /\ Suspended(RunCleanup(runtimes, cleanup, 1))
    /\ UNCHANGED shutdownFrame

\* the unload_predictor call of manual_unload has returned (ok), or it has raised and
\* cleanup_resources logs the error and returns
CleanupUnloaded(ok) ==
    /\ cleanup.pc = "unloading"
    /\ LET r == CleanupTargets[cleanup.i]
           next == RunCleanup([runtimes EXCEPT ![r].loaded = FALSE], cleanup, cleanup.i + 1)
       IN  IF ok
           THEN Suspended(next)
           ELSE /\ cleanup' = [cleanup EXCEPT !.pc = "done"]
                /\ UNCHANGED <<runtimes, running, tasks>>
    /\ UNCHANGED shutdownFrame
(***************************************************************************)
(* Specifications                                                          *)
(***************************************************************************)
SeedPredictors(d) == [i \in 1..Len(d) |-> [version |-> i, traffic |-> d[i]]]

TrafficIdle ==
    /\ tcall = [c \in Callers |-> IdleCall]
    /\ tstarted = 0
    /\ epoch = [pred |-> predictors, met |-> metrics, ops |-> <<>>, failed |-> FALSE]

RegistryIdle ==
    /\ ccall = [k \in Creators |-> IdleCreate]
    /\ cstarted = 0

RuntimeIdle ==
    /\ initialized = FALSE
    /\ loaded = FALSE
    /\ init_lock = FreeLock
    /\ load_lock = FreeLock
    /\ rcall = [t \in Tasks |-> [pc |-> "idle", op |-> "none"]]
    /\ rstarted = 0
    /\ model = "none"
    /\ nDownload = 0
    /\ nSetupFailed = 0
    /\ cycleLoads = 0
    /\ unload_tasks = 0

NewHist == [published |-> <<>>, external |-> 0, popped |-> 0, flushed |-> <<>>,
            late |-> FALSE, popErrors |-> 0, bound |-> {}]

\* a bus nobody has configured or started
BusIdle ==
    /\ queues = NewBus.queues
    /\ handlers = NewBus.handlers
    /\ event_to_queue = NewBus.event_to_queue
    /\ running = FALSE
    /\ tasks = NoMap
    /\ broker = [q \in QueueNames |-> <<>>]
    /\ invocations = <<>>
    /\ publish_result = "none"
    /\ stopping = FALSE
    /\ subscribe_result = NoSubscribe
    /\ hist = NewHist

\* no registry of both types, no stored prediction, no batch
ArticlesIdle ==
    /\ catalog = {}
    /\ article_predictions = {}
    /\ pcalls = <<>>

\* nobody has called get_random_predictor
SelectionIdle == pick = NoPick

\* no start() call yet, no publish() call yet
LifecycleIdle ==
    /\ lifecycle = NoLifecycle
    /\ orphans = NoOrphans
    /\ publish_task = "none"

\* every runtime unloaded, no cleanup in progress
ShutdownIdle ==
    /\ runtimes = [r \in Runtimes |-> IdleRuntime(FALSE)]
    /\ cleanup = NoCleanup

PlatformIdle == SelectionIdle /\ LifecycleIdle /\ ShutdownIdle

InitTraffic ==
    /\ PlatformIdle
    /\ \E d \in SeedDistributions : predictors = SeedPredictors(d)
    /\ metrics = EmptyBag
    /\ TrafficIdle
    /\ RegistryIdle
    /\ RuntimeIdle
    /\ BusIdle
    /\ ArticlesIdle
    /\ weights = FALSE
    /\ seeded = [row |-> FALSE, weights |-> FALSE]

TrafficSteps ==
    \/ \E c \in Callers : TLookup(c)
    \/ \E c \in Callers : TReadTarget(c)
    \/ \E c \in Callers : TReadActives(c)
    \/ \E c \in Callers : TCreateMetric(c)
    \/ \E c \in Callers : TUpdateTraffic(c)
    \/ \E c \in Callers : TFinalRead(c)
    \/ \E c \in Callers : TStoreFailure(c)

\* admin calls one after the other
NextTraffic ==
    \/ \E op \in TrafficOps : TStart(SerialCaller, op)
    \/ TrafficSteps

SpecTraffic == InitTraffic /\ [][NextTraffic]_vars

\* admin calls that overlap
NextTrafficRace ==
    \/ \E c \in Callers, op \in TrafficOps : TStartConcurrent(c, op)
    \/ TrafficSteps

SpecTrafficRace == InitTraffic /\ [][NextTrafficRace]_vars

RegistrySteps ==
    \/ \E k \in Creators : CReadNewest(k)
    \/ \E k \in Creators : CInsert(k)
    \/ \E k \in Creators : CStoreFailure(k)

InitRegistry ==
    /\ PlatformIdle
    /\ predictors = <<>>
    /\ metrics = EmptyBag
    /\ TrafficIdle
    /\ RegistryIdle
    /\ RuntimeIdle
    /\ BusIdle
    /\ ArticlesIdle
    /\ weights = FALSE
    /\ seeded = [row |-> FALSE, weights |-> FALSE]

\* create_predictor calls one after the other
NextRegistry ==
    \/ \E v \in CreateVersions : CStart(SerialCreator, v)
    \/ RegistrySteps

SpecRegistry == InitRegistry /\ [][NextRegistry]_vars

\* create_predictor calls that overlap
NextRegistryRace ==
    \/ \E k \in Creators, v \in CreateVersions : CStartConcurrent(k, v)
    \/ RegistrySteps

SpecRegistryRace == InitRegistry /\ [][NextRegistryRace]_vars


\* a fresh BasePredictor in a process that starts on a store left by earlier runs
InitRuntime ==
    /\ PlatformIdle
    /\ predictors \in SeedRegistries
    /\ weights \in {w \in BOOLEAN : w => FindPredictor(predictors, RuntimeVersion) # 0}
    /\ seeded = [row |-> FindPredictor(predictors, RuntimeVersion) # 0, weights |-> weights]
    /\ metrics = EmptyBag
    /\ TrafficIdle
    /\ RegistryIdle
    /\ RuntimeIdle
    /\ BusIdle
    /\ ArticlesIdle

NextRuntime ==
    \/ \E p \in Procs : Setup(p)
    \/ \E p \in Procs : SetupLocked(p)
    \/ \E p \in Procs : SetupGet(p)
    \/ \E p \in Procs, ok \in BOOLEAN : SetupDownloaded(p, ok)
    \/ \E p \in Procs, ok \in BOOLEAN : SetupRegister(p, ok)
    \/ \E p \in Procs : Forward(p)
    \/ \E p \in Procs : LoadPredictor(p)
    \/ \E p \in Procs : ManualUnload(p)
    \/ \E p \in Procs : LoadLocked(p)
    \/ \E p \in Procs : LoadGet(p)
    \/ \E p \in Procs, ok \in BOOLEAN : LoadDone(p, ok)
    \/ \E p \in Procs : LoadMetric(p)
    \/ \E p \in Procs : LoadErrMetric(p)
    \/ \E p \in Procs, ok \in BOOLEAN : ForwardDone(p, ok)
    \/ \E p \in Procs : ForwardMetrics(p)
    \/ \E p \in Procs : ForwardErrMetric(p)
    \/ IdleTimeout
    \/ \E t \in Tasks : UnloadLocked(t)
    \/ \E t \in Tasks, ok \in BOOLEAN : UnloadDone(t, ok)
    \/ \E t \in Tasks : UnloadMetric(t)
    \/ \E t \in Tasks : UnloadErrMetric(t)

SpecRuntime == InitRuntime /\ [][NextRuntime]_vars

\* the event loop runs the idle-unload task: its timer fires and every step of its
\* unload_predictor call is taken
IdleTaskRuns ==
    /\ WF_vars(IdleTimeout)
    /\ WF_vars(UnloadLocked(IdleTask))
    /\ WF_vars(\E ok \in BOOLEAN : UnloadDone(IdleTask, ok))
    /\ WF_vars(UnloadMetric(IdleTask))
    /\ WF_vars(UnloadErrMetric(IdleTask))

SpecRuntimeIdle == InitRuntime /\ [][NextRuntime]_vars /\ IdleTaskRuns

\* the bus after _setup_event_system and start(), on an empty broker
InitBus ==
    /\ PlatformIdle
    /\ \E hs \in BusSetups :
          LET bus == SetupEventSystem(hs)
          IN  /\ queues = bus.queues
              /\ handlers = bus.handlers
              /\ event_to_queue = bus.event_to_queue
              /\ tasks = [q \in DOMAIN bus.queues |-> [pc |-> "pop", batch |-> <<>>]]
    /\ running = TRUE
    /\ broker = [q \in QueueNames |-> <<>>]
    /\ invocations = <<>>
    /\ publish_result = "none"
    /\ stopping = FALSE
    /\ subscribe_result = NoSubscribe
    /\ hist = NewHist
    /\ ArticlesIdle
    /\ predictors = <<>>
    /\ metrics = EmptyBag
    /\ TrafficIdle
    /\ RegistryIdle
    /\ RuntimeIdle
    /\ weights = FALSE
    /\ seeded = [row |-> FALSE, weights |-> FALSE]

NextBus ==
    \/ \E t \in EventTypes : PublishAsync(t)
    \/ \E q \in QueueNames, kind \in ExternalKinds : ExternalPush(q, kind)
    \/ \E q \in QueueNames : BlpopItem(q)
    \/ \E q \in QueueNames : BlpopTimeout(q)
    \/ \E q \in QueueNames : BlpopError(q)
    \/ \E q \in QueueNames : Backoff(q)
    \/ \E i \in 1..MaxPushed, ok \in BOOLEAN : HandleReturns(i, ok)

SpecBus == InitBus /\ [][NextBus]_vars

\* the running bus, and stop() called at any moment
NextBusStop ==
    \/ NextBus
    \/ Stop
    \/ StopReturns
    \/ StopAlready

SpecBusStop == InitBus /\ [][NextBusStop]_vars

\* a bus just constructed
InitBusConfig ==
    /\ PlatformIdle
    /\ BusIdle
    /\ ArticlesIdle
    /\ predictors = <<>>
    /\ metrics = EmptyBag
    /\ TrafficIdle
    /\ RegistryIdle
    /\ RuntimeIdle
    /\ weights = FALSE
    /\ seeded = [row |-> FALSE, weights |-> FALSE]

\* register_queue and subscribe calls in any order
NextBusConfig ==
    \/ \E q \in ConfigQueues, n \in ConfigBatchSizes : RegisterQueueCall(q, n)
    \/ \E q \in ConfigQueues, h \in ConfigHandlers : SubscribeCall(q, h)

SpecBusConfig == InitBusConfig /\ [][NextBusConfig]_vars

\* an empty "article_predictions" collection and one of the registries; no batch yet
InitArticles ==
    /\ PlatformIdle
    /\ catalog \in SeedCatalogs
    /\ article_predictions = {}
    /\ pcalls = <<>>
    /\ BusIdle
    /\ predictors = <<>>
    /\ metrics = EmptyBag
    /\ TrafficIdle
    /\ RegistryIdle
    /\ RuntimeIdle
    /\ weights = FALSE
    /\ seeded = [row |-> FALSE, weights |-> FALSE]

NextArticles ==
    \/ \E articles \in ArticleBatches : ProcessArticles(articles)
    \/ \E c \in 1..MaxBatches : ProcessPredictionType(c)
    \/ \E c \in 1..MaxBatches, i \in 1..(MaxArticles * 2) : Acquire(c, i)
    \/ \E c \in 1..MaxBatches, i \in 1..(MaxArticles * 2) : ForwardReturns(c, i)
    \/ \E c \in 1..MaxBatches, i \in 1..(MaxArticles * 2) : ForwardRaises(c, i)
    \/ \E c \in 1..MaxBatches, i \in 1..(MaxArticles * 2) : UpsertPrediction(c, i)

SpecArticles == InitArticles /\ [][NextArticles]_vars

\* one of the registries; nobody has asked for a predictor yet
InitSelection ==
    /\ catalog \in SelectionCatalogs
    /\ article_predictions = {}
    /\ pcalls = <<>>
    /\ SelectionIdle
    /\ LifecycleIdle
    /\ ShutdownIdle
    /\ BusIdle
    /\ predictors = <<>>
    /\ metrics = EmptyBag
    /\ TrafficIdle
    /\ RegistryIdle
    /\ RuntimeIdle
    /\ weights = FALSE
    /\ seeded = [row |-> FALSE, weights |-> FALSE]

NextSelection ==
    \E prediction_type \in {SENTIMENT_PREDICTION_TYPE, NEWS_CLASSIFICATION_PREDICTION_TYPE} :
        GetRandomPredictorCall(prediction_type)

SpecSelection == InitSelection /\ [][NextSelection]_vars

\* a bus just constructed: register_queue, subscribe, start() and stop() in any order
NextBusStart ==
    \/ NextBusConfig
    \/ \E ok \in BOOLEAN : Start(ok)
    \/ StopAlready
    \/ Stop
    \/ StopReturns

SpecBusStart == InitBusConfig /\ [][NextBusStart]_vars

\* the same, and start() called on a bus that is running
NextBusRestart ==
    \/ NextBusStart
    \/ \E ok \in BOOLEAN : StartRunning(ok)
    \/ \E q \in ConfigQueues : OrphanReturns(q)

SpecBusRestart == InitBusConfig /\ [][NextBusRestart]_vars

\* the running bus and its producers, no item consumed
NextPublish ==
    \/ \E t \in EventTypes : PublishAsync(t)
    \/ \E t \in EventTypes : PublishAsyncRaises(t)
    \/ \E t \in EventTypes, ok \in BOOLEAN : Publish(t, ok)
    \/ \E q \in QueueNames, kind \in ExternalKinds : ExternalPush(q, kind)

SpecPublish == InitBus /\ [][NextPublish]_vars

\* the platform after setup with its bus running: every runtime is unloaded, or
\* loaded with its idle unload scheduled
InitShutdown ==
    /\ runtimes \in [Runtimes -> {IdleRuntime(l) : l \in BOOLEAN}]
    /\ cleanup = NoCleanup
    /\ SelectionIdle
    /\ LifecycleIdle
    /\ LET bus == SetupEventSystem(<<"ArticlesHandler">>)
       IN  /\ queues = bus.queues
           /\ handlers = bus.handlers
           /\ event_to_queue = bus.event_to_queue
           /\ tasks = StartTasks(bus.queues)
    /\ running = TRUE
    /\ broker = [q \in QueueNames |-> <<>>]
    /\ invocations = <<>>
    /\ publish_result = "none"
    /\ stopping = FALSE
    /\ subscribe_result = NoSubscribe
    /\ hist = NewHist
    /\ ArticlesIdle
    /\ predictors = <<>>
    /\ metrics = EmptyBag
    /\ TrafficIdle
    /\ RegistryIdle
    /\ RuntimeIdle
    /\ weights = FALSE
    /\ seeded = [row |-> FALSE, weights |-> FALSE]

NextShutdown ==
    \/ \E r \in Runtimes : HandlerForward(r)
    \/ \E r \in Runtimes, ok \in BOOLEAN : HandlerLoadReturns(r, ok)
    \/ \E r \in Runtimes, ok \in BOOLEAN : HandlerForwardReturns(r, ok)
    \/ \E r \in Runtimes : TimerFires(r)
    \/ CleanupResources
    \/ \E ok \in BOOLEAN : CleanupUnloaded(ok)

SpecShutdown == InitShutdown /\ [][NextShutdown]_vars
(***************************************************************************)
(* Claims                                                                  *)
(***************************************************************************)
Conserved(preds) ==
    /\ SumTraffic(preds) \in {0, 100}
    /\ \A i \in 1..Len(preds) : preds[i].traffic \in 0..100

\* C1 (SpecTraffic): traffic conservation. When an admin call (shift, set or
\* deactivate) made on a distribution that sums to 0 or 100 has completed, the
\* traffic percentages of the type sum to 0 or 100 and each lies in 0..100.
C1_TrafficConservation ==
    (tcall[SerialCaller].pc = "done" /\ Conserved(epoch.pred)) => Conserved(predictors)

\* C2 (SpecTrafficRace): two overlapping admin calls are serialised. When both have
\* completed without error, and each serial order of the two completes and conserves
\* the traffic, the stored distribution is the result of one of the two serial
\* orders and sums to 0 or 100.
C2_SerialisedMutations ==
    (AllQuiet /\ Len(epoch.ops) = 2 /\ ~epoch.failed)
    => LET a == epoch.ops[1]
           b == epoch.ops[2]
           ab == ApplyOp(ApplyOp(epoch.pred, a).preds, b)
           ba == ApplyOp(ApplyOp(epoch.pred, b).preds, a)
       IN  (/\ ApplyOp(epoch.pred, a).ok /\ ab.ok /\ Conserved(ab.preds)
            /\ ApplyOp(epoch.pred, b).ok /\ ba.ok /\ Conserved(ba.preds))
           => (predictors \in {ab.preds, ba.preds} /\ Conserved(predictors))

\* C3 (SpecTraffic): adjust_traffic_distribution is all-or-nothing. When an admin
\* call has failed, every traffic percentage and the metric rows are what they were
\* when the call was made.
C3_AllOrNothing ==
    tcall[SerialCaller].pc = "failed"
    => (predictors = epoch.pred /\ metrics = epoch.met)

CreatorEnds(k) == Creating(k) /\ ccall'[k].pc \in {"done", "failed"}

\* C7 (SpecRegistry): monotone versions. A create_predictor call run after the
\* previous one has ended succeeds only with a version above every stored version,
\* and then the newest predictor has that version; with a version at or below the
\* maximum it fails; only a successful call changes the collection.
C7_MonotoneVersions ==
    [][\A k \in Creators :
          /\ (CreatorEnds(k) /\ ccall'[k].pc = "done")
             => /\ \A i \in 1..Len(predictors) : ccall[k].version > predictors[i].version
                /\ predictors' = Append(predictors, [version |-> ccall[k].version, traffic |-> 0])
                /\ MaxVersion(predictors') = ccall[k].version
          /\ (CreatorEnds(k) /\ \E i \in 1..Len(predictors) : ccall[k].version <= predictors[i].version)
             => (ccall'[k].pc = "failed" /\ predictors' = predictors)
          /\ (Creating(k) /\ ccall'[k].pc # "done") => predictors' = predictors
      ]_vars

\* C7 witness: a creation was accepted after another one, and a later call ended in error
C7_Witness ==
    /\ Len(predictors) >= 2
    /\ ccall[SerialCreator].pc = "failed"
    /\ \E i \in 1..Len(predictors) : ccall[SerialCreator].version <= predictors[i].version

\* C8 (SpecRegistryRace): racing creators are excluded. The versions of the stored
\* predictors are strictly increasing in insertion order.
C8_RacingCreatorsExcluded ==
    \A i, j \in 1..Len(predictors) :
        i < j => predictors[i].version < predictors[j].version

Forwarding(p) == rcall[p].pc = "forwarding"
Unloading(t) == rcall[t].pc = "unloading"

\* C4 (SpecRuntime): unload never interleaves with forward. While a _forward call is
\* in progress no _unload_predictor call is in progress, by the idle-unload task or
\* by manual_unload, and the model it runs on is wholly loaded.
C4_NoUnloadDuringForward ==
    \A p \in Procs :
        Forwarding(p) => (model = "ready" /\ \A t \in Tasks : ~Unloading(t))

nCreated ==
    Len(SelectSeq(predictors, LAMBDA d : d.version = RuntimeVersion)) - (IF seeded.row THEN 1 ELSE 0)

\* C6 as stated (SpecRuntime): once setup() has initialised the runtime, the download
\* has been invoked exactly once and the registry row was created at most once.
C6_ExactlyOneDownload ==
    initialized => (nDownload = 1 /\ nCreated <= 1)

\* C6 amended (SpecRuntime): idempotent setup. _download_predictor is invoked at most
\* once more than setup() calls have failed; when none has failed and the runtime is
\* initialised it was invoked once if the row or the weights were missing and not at
\* all if both existed; the row is created at most once; once the runtime is
\* initialised no call downloads, creates a row or touches the weights.
C6_IdempotentSetup ==
    /\ [](/\ nDownload <= nSetupFailed + 1
          /\ nCreated <= 1
          /\ (initialized /\ nSetupFailed = 0)
             => nDownload = (IF seeded.row /\ seeded.weights THEN 0 ELSE 1))
    /\ [][initialized =>
            (nDownload' = nDownload /\ predictors' = predictors /\ weights' = weights)]_vars

\* C6 witness: a second setup() waited for init_lock during the initialisation that
\* downloaded, and is handed the lock after it
C6_Witness ==
    \E p \in Procs :
        /\ rcall[p].pc = "setup_wait" /\ init_lock.holder = p
        /\ initialized /\ nDownload = 1

(***************************************************************************)
(* Event bus                                                               *)
(***************************************************************************)
\* the handle calls handler h has received, in call order
Delivered(h) == SelectSeq(invocations, LAMBDA v : v.handler = h)

\* the concatenation of the lists of a sequence of handle calls
RECURSIVE Flatten(_)
Flatten(calls) == IF calls = <<>> THEN <<>> ELSE Head(calls).events \o Flatten(Tail(calls))

IsPrefix(s, t) == Len(s) <= Len(t) /\ s = SubSeq(t, 1, Len(s))

Ceil(a, b) == (a + b - 1) \div b

\* everything pushed so far is an event of type t published through the bus, all of
\* it was pushed before the first pop, and no pop has failed
QuiescentBurst(t) ==
    /\ ~hist.late
    /\ hist.external = 0
    /\ hist.popErrors = 0
    /\ \A i \in 1..Len(hist.published) : hist.published[i].event_type = t

\* nothing of queue q is left in the broker or in the consumer's event_batch
Drained(q) == broker[q] = <<>> /\ tasks[q].batch = <<>>

\* C9: when K events of a type E that handler H subscribes to are all in the queue
\* before the consumer pops any of them (no other item, no error), H.handle is called
\* at most ceil(K / batch_size) times, the lists H has received so far, concatenated
\* in call order, are a prefix of the published sequence, and they are exactly the
\* published sequence once the queue is drained.
C9_BatchRouting ==
    \A t \in DOMAIN handlers : \A i \in 1..Len(handlers[t]) :
        LET h == handlers[t][i]
            q == event_to_queue[t]
            K == Len(hist.published)
        IN  QuiescentBurst(t) =>
                /\ Len(Delivered(h)) <= Ceil(K, queues[q].batch_size)
                /\ IsPrefix(Flatten(Delivered(h)), hist.published)
                /\ Drained(q) => Flatten(Delivered(h)) = hist.published

\* C9 witness: a burst of at least three articles events was delivered in two calls
C9_Witness ==
    /\ QuiescentBurst("articles_event")
    /\ Len(hist.published) >= 3
    /\ Drained(QUEUE_ARTICLES)
    /\ Len(Delivered("ArticlesHandler")) = 2
    /\ Flatten(Delivered("ArticlesHandler")) = hist.published

\* the events among the items that are JSON and validate as a BaseEvent of type t
WellFormedOfType(items, t) ==
    LET ok == SelectSeq(items, LAMBDA x : ~JSONDecodeError(x) /\ ~ValidationError(JsonLoads(x))
                                          /\ x.event_type = t)
    IN  [i \in 1..Len(ok) |-> ModelValidate(JsonLoads(ok[i]))]

\* C10: malformed items are dropped one by one: every handler has received exactly
\* the well-formed events of its type among the items of the batches flushed so far,
\* whatever malformed items those batches held, and the consumer loop is still alive.
C10_MalformedDroppedIndividually ==
    /\ \A t \in DOMAIN handlers : \A i \in 1..Len(handlers[t]) :
           Flatten(Delivered(handlers[t][i])) = WellFormedOfType(hist.flushed, t)
    /\ \A q \in DOMAIN tasks : tasks[q].pc \in {"pop", "handling", "backoff"}

\* the handle calls started by the same flush as the i-th one
Siblings(i) == {j \in 1..Len(invocations) : j # i /\ invocations[j].batch = invocations[i].batch}

\* C11: handler isolation. In the step in which a handler call raises, every other
\* handle call keeps its event list and its state (the ones of the same batch that
\* are running go on running), no item goes back to the broker, and the consumer is
\* either still waiting for the other handlers of the batch or back at popping; a
\* flush starts the calls of all the handlers of its groups at once, so the other
\* handlers of the batch have been invoked whatever the first one does.
C11_HandlerIsolation ==
    [][\A i \in 1..Len(invocations) :
          (invocations[i].status = "running" /\ invocations'[i].status = "raised")
          => LET q == invocations[i].queue
             IN  /\ Len(invocations') = Len(invocations)
                 /\ \A j \in 1..Len(invocations) : j # i => invocations'[j] = invocations[j]
                 /\ \A j \in Siblings(i) : invocations[j].status \in {"running", "returned", "raised"}
                 /\ broker' = broker
                 /\ tasks'[q].batch = tasks[q].batch
                 /\ tasks'[q].pc = IF \E j \in Siblings(i) : invocations[j].status = "running"
                                  THEN "handling" ELSE "pop"
    ]_vars

\* C11 witness: a handler raised, the other handler of the same batch returned after
\* it, and a later batch was delivered
C11_Witness ==
    \E i, j, k \in 1..Len(invocations) :
        /\ invocations[i].status = "raised"
        /\ j \in Siblings(i) /\ i < j
        /\ invocations[j].status = "returned"
        /\ invocations[j].events # <<>>
        /\ invocations[k].batch > invocations[i].batch

\* C12: when stop() is called while handler calls of an already flushed batch are in
\* progress, they run to completion: no handle call is ever cancelled.
C12_InFlightHandlersComplete ==
    \A i \in 1..Len(invocations) : invocations[i].status \in {"running", "returned", "raised"}

\* the event types handler h declares
TypesOf(h) == {event_types(h)[i] : i \in 1..Len(event_types(h))}

\* C13: event-type binding is one-to-one. After any sequence of register_queue and
\* subscribe calls every event type was bound through one queue only, which is the
\* queue the bus routes it to, and that queue is registered; a binding once made is
\* never changed; a subscribe that would bind a type already bound to another queue
\* raises, and a subscribe to an unregistered queue raises and binds nothing.
C13_OneToOneBinding ==
    /\ [](/\ \A p1, p2 \in hist.bound : p1[1] = p2[1] => p1[2] = p2[2]
          /\ \A p \in hist.bound : p[1] \in DOMAIN event_to_queue /\ event_to_queue[p[1]] = p[2]
          /\ \A t \in DOMAIN event_to_queue :
                 <<t, event_to_queue[t]>> \in hist.bound /\ event_to_queue[t] \in DOMAIN queues)
    /\ [][\A q \in ConfigQueues, h \in ConfigHandlers :
            SubscribeCall(q, h)
            => /\ q \notin DOMAIN queues
                  => (subscribe_result'.raised /\ handlers' = handlers
                      /\ event_to_queue' = event_to_queue)
               /\ (\E t \in TypesOf(h) : t \in DOMAIN event_to_queue /\ event_to_queue[t] # q)
                  => subscribe_result'.raised
               /\ \A t \in DOMAIN event_to_queue :
                      t \in DOMAIN event_to_queue' /\ event_to_queue'[t] = event_to_queue[t]
       ]_vars

\* C13 witness: a subscribe to a registered queue raised because the handler's type
\* is bound to another queue
C13_Witness ==
    /\ subscribe_result.raised
    /\ subscribe_result.queue \in DOMAIN queues
    /\ \E t \in TypesOf(subscribe_result.handler) :
           t \in DOMAIN event_to_queue /\ event_to_queue[t] # subscribe_result.queue

\* C14: a queue may have several subscribers for one event type. A subscribe of a
\* handler to a registered queue, when each of its event types is unbound or bound to
\* that very queue and one of them is already bound to it, succeeds and appends the
\* handler to the handlers of each of its types.
C14_SeveralSubscribers ==
    [][\A q \in ConfigQueues, h \in ConfigHandlers :
          (/\ SubscribeCall(q, h)
           /\ q \in DOMAIN queues
           /\ \A t \in TypesOf(h) : t \in DOMAIN event_to_queue => event_to_queue[t] = q
           /\ \E t \in TypesOf(h) : t \in DOMAIN event_to_queue
           /\ \A t \in TypesOf(h) : t \in DOMAIN handlers
                                      => \A i \in 1..Len(handlers[t]) : handlers[t][i] # h)
          => /\ ~subscribe_result'.raised
             /\ \A t \in TypesOf(h) :
                    /\ t \in DOMAIN handlers'
                    /\ handlers'[t] = Append(IF t \in DOMAIN handlers THEN handlers[t] ELSE <<>>, h)
    ]_vars

(***************************************************************************)
(* Article predictions                                                     *)
(***************************************************************************)
\* every task of every call has ended
ArticlesQuiet ==
    /\ \A c \in 1..Len(pcalls) : CallEnded(pcalls[c])
    /\ \A c \in 1..Len(pcalls) : \A i \in 1..Len(pcalls[c].tasks) :
          pcalls[c].tasks[i].pc \in {"done", "raised"}
PredictionKeys(doc) == IF "predictions" \in DOMAIN doc THEN DOMAIN doc["predictions"] ELSE {}
\* the selected predictor ids a document holds, under the name the update writes or the
\* name the document model reads
SelectedOf(doc) ==
    {doc[f] : f \in {"selected_prediction", "selected_predictor_id"} \cap DOMAIN doc}
ActiveIds(prediction_type) ==
    LET active == FindPredictorsOfType(prediction_type, TRUE)
    IN  {active[k].id : k \in 1..Len(active)}
AllHaveInstances(pt) ==
    LET active == FindPredictorsOfType(pt.prediction_type, TRUE)
    IN  Len(active) > 0 /\ Len(PredictorInstances(active, pt.instances)) = Len(active)

\* C15: after a batch is processed with no predictor failing, every article with a text
\* has, for every prediction type whose active predictors all have an instance, exactly
\* one stored aggregate, whose predictions keys are the ids of the active predictors and
\* whose selected predictor is one of them.
C15_EventFanOut ==
    (ArticlesQuiet /\ ForwardErrors = 0) =>
        \A c \in 1..Len(pcalls) : \A a \in 1..Len(pcalls[c].articles) :
            \A t \in 1..Len(PredictionTypes) :
                LET article == pcalls[c].articles[a]
                    pt == PredictionTypes[t]
                    found == Matching(article_predictions, article.id, pt.prediction_type)
                IN  (TextToAnalyze(article) # <<>> /\ AllHaveInstances(pt)) =>
                        /\ Cardinality(found) = 1
                        /\ \A d \in found :
                              /\ PredictionKeys(d) = ActiveIds(pt.prediction_type)
                              /\ SelectedOf(d) # {}
                              /\ SelectedOf(d) \subseteq ActiveIds(pt.prediction_type)

\* C16: in every state of the store, a stored aggregate whose selected predictor id is
\* set has an entry for that id in its predictions map.
C16_SelectedHasEntry ==
    \A d \in article_predictions : SelectedOf(d) \subseteq PredictionKeys(d)

\* an aggregate was processed twice and the second batch selected another predictor
\* than the one whose entry the first batch left
C16_Witness ==
    \E d \in article_predictions :
        \E p \in SelectedOf(d) : \E q \in PredictionKeys(d) :
            /\ p # q
            /\ d["predictions"][p].prediction_value = 2
            /\ d["predictions"][q].prediction_value = 1

\* C17: a forward or an upsert that fails for one (article, predictor) pair is not
\* propagated: the process_articles call does not raise.
C17_FailureNotPropagated ==
    \A c \in 1..Len(pcalls) :
        (\E i \in 1..Len(pcalls[c].tasks) :
            pcalls[c].tasks[i].error \in {"ForwardError", "ValidationError"})
        => pcalls[c].pc # "raised"

\* C18: an article whose title and description are both absent or blank raises no error
\* out of the batch.
C18_BlankArticleSkipped ==
    \A c \in 1..Len(pcalls) :
        (\E a \in 1..Len(pcalls[c].articles) : TextToAnalyze(pcalls[c].articles[a]) = <<>>)
        => pcalls[c].error # "ValueError"

\* the task's find_one_and_update is applied in this step
Upserts(c, i) ==
    /\ c \in 1..Len(pcalls)
    /\ i \in 1..Len(pcalls[c].tasks)
    /\ pcalls[c].tasks[i].pc = "upsert"
    /\ pcalls'[c].tasks[i].pc # "upsert"

\* C19: an upsert for predictor p leaves one aggregate per (article, type), which holds
\* p's entry, keeps every other predictor's entry as it was and, when set_as_selected
\* is false, keeps the selected predictor; the aggregates it does not address stay as
\* they are.  So upserts of p1 and p2 in either order leave both entries.
C19_UpsertMerge ==
    [][\A c \in 1..MaxBatches : \A i \in 1..(MaxArticles * 2) :
          Upserts(c, i) =>
            LET task == pcalls[c].tasks[i]
                p == task.predictor.id
                old == Matching(article_predictions, task.article.id, task.predictor.prediction_type)
                new == Matching(article_predictions', task.article.id, task.predictor.prediction_type)
            IN  /\ Cardinality(new) = 1
                /\ article_predictions' \ new = article_predictions \ old
                /\ \A n \in new :
                      /\ p \in PredictionKeys(n)
                      /\ n["predictions"][p].prediction_value = task.value
                      /\ \A d \in old :
                            /\ \A q \in PredictionKeys(d) \ {p} :
                                  /\ q \in PredictionKeys(n)
                                  /\ n["predictions"][q] = d["predictions"][q]
                            /\ ~task.is_selected => SelectedOf(n) = SelectedOf(d)
      ]_vars

\* the entries of two predictors, written by tasks of two different batches
C19_Witness ==
    \E d \in article_predictions : \E p, q \in PredictionKeys(d) :
        /\ d["predictions"][p].prediction_value = 1
        /\ d["predictions"][q].prediction_value = 2
        /\ \E c \in 1..Len(pcalls) : \E i \in 1..Len(pcalls[c].tasks) :
              /\ ~pcalls[c].tasks[i].is_selected
              /\ pcalls[c].tasks[i].pc = "raised"
              /\ pcalls[c].tasks[i].error = "ValidationError"

\* forward calls in progress, of one call and of all calls
InFlightOf(c) == {i \in 1..Len(pcalls[c].tasks) : pcalls[c].tasks[i].pc = "forward"}
InFlightForwards == {<<c, i>> \in (1..Len(pcalls)) \X (1..(MaxArticles * 2)) : i \in InFlightOf(c)}

\* C20 as stated: while a process_articles call handles a batch, the forward calls in
\* progress never exceed concurrent_predictions.
C20_BoundedInFlight ==
    (\E c \in 1..Len(pcalls) : ~CallEnded(pcalls[c]))
    => Cardinality(InFlightForwards) <= concurrent_predictions

\* the semaphore of one _process_prediction_type call does bound the forward calls
\* that this call has dispatched
BoundedInFlightPerCall ==
    \A c \in 1..Len(pcalls) : Cardinality(InFlightOf(c)) <= concurrent_predictions

\* a forward is in progress while another task of the same call waits for the semaphore
SemaphoreHeld ==
    \E c \in 1..Len(pcalls) : \E i, j \in 1..Len(pcalls[c].tasks) :
        /\ pcalls[c].tasks[i].pc = "forward"
        /\ pcalls[c].tasks[j].pc = "semaphore"

(***************************************************************************)
(* Predictor runtime: idle unload and failures                             *)
(***************************************************************************)
MetricCount(name, value) ==
    LET row == RuntimeRow(name, value)
    IN  IF BagIn(row, metrics) THEN CopiesIn(row, metrics) ELSE 0

\* a forward has returned and scheduled the idle unload, and no call is in progress
IdleAfterForward ==
    /\ loaded
    /\ rcall[IdleTask].pc = "sleep"
    /\ \A p \in Procs : Ended(p)
\* a further forward or manual_unload call is in progress
FurtherCall == \E p \in Procs : ~Ended(p) /\ rcall[p].op \in {"forward", "unload"}
\* an _unload_predictor call has raised
UnloadFailed == MetricCount("predictor_unloading_error", 1) > 0
IdleTaskPc == rcall[IdleTask].pc

ShiftAtThreshold ==
    LET newest == GetNewestPredictor(epoch.pred)
    IN  /\ tcall[SerialCaller].op.kind = "shift"
        /\ newest # 0
        /\ epoch.pred[newest].traffic = MAX_TRAFFIC_THRESHOLD

\* C22 (SpecTraffic): shift at the threshold is a no-op. When a completed
\* shift_newest_predictor_traffic call found the newest predictor at
\* MAX_TRAFFIC_THRESHOLD, no traffic percentage and no metric row was written and
\* the call returned the active distribution it found.
C22_ShiftAtThresholdNoOp ==
    (tcall[SerialCaller].pc = "done" /\ ShiftAtThreshold)
    => /\ predictors = epoch.pred
       /\ metrics = epoch.met
       /\ tcall[SerialCaller].ret = ActiveDistribution(epoch.pred)

\* the set call was made for a registered predictor on a distribution that sums
\* to 100 in which another predictor has traffic
SetOnFullDistribution ==
    LET op == tcall[SerialCaller].op
        target == FindPredictor(epoch.pred, op.version)
    IN  /\ op.kind = "set"
        /\ op.traffic \in 0..100
        /\ target # 0
        /\ SumTraffic(epoch.pred) = 100
        /\ epoch.pred[target].traffic < 100

\* C23 (SpecTraffic): rounding of the redistribution. When a completed
\* set_predictor_traffic(type, version, t) call was made on a distribution summing
\* to 100 with another predictor active, the other predictors' percentages sum to
\* exactly 100 - t and each is within 1 of its proportional share of 100 - t.
C23_SetRedistribution ==
    LET op == tcall[SerialCaller].op
        target == FindPredictor(epoch.pred, op.version)
        others == {i \in 1..Len(epoch.pred) : i # target}
        previous == 100 - epoch.pred[target].traffic
    IN  (tcall[SerialCaller].pc = "done" /\ SetOnFullDistribution)
        => /\ SumTraffic(predictors) - predictors[target].traffic = 100 - op.traffic
           /\ \A i \in others :
                Abs(predictors[i].traffic * previous
                    - (100 - op.traffic) * epoch.pred[i].traffic) <= previous

InvalidTraffic(op) == op.kind = "set" /\ op.traffic \notin 0..100

UnknownPredictor(op, preds) ==
    op.kind \in {"set", "deactivate"} /\ FindPredictor(preds, op.version) = 0

\* C24 (SpecTraffic): traffic validation failures. A set call with a target value
\* outside 0..100, and a set or deactivate call that names a predictor that is not
\* registered, never completes: it fails before anything is written, so no traffic
\* percentage changes and no metric row is added.
C24_ValidationFailures ==
    LET call == tcall[SerialCaller]
    IN  (InvalidTraffic(call.op) \/ UnknownPredictor(call.op, epoch.pred))
        => /\ call.pc \in {"lookup", "failed"}
           /\ predictors = epoch.pred
           /\ metrics = epoch.met

C24_Witness ==
    /\ tcall[SerialCaller].pc = "failed"
    /\ UnknownPredictor(tcall[SerialCaller].op, epoch.pred)
    /\ ~InvalidTraffic(tcall[SerialCaller].op)
    /\ tstarted = 2
    /\ metrics # EmptyBag

DownloadFails(p) ==
    /\ rcall[p].pc \in {"setup_download", "setup_download_w"}
    /\ rcall'[p].pc = "error"

\* C25 (SpecRuntime): setup failure surfacing. When the download of the weights
\* fails inside setup(), the call raises, one PREDICTOR_LOADING_ERROR row of value
\* 1 is recorded and the runtime stays uninitialised.
C25_SetupFailureRecorded ==
    [][\A p \in Procs :
         DownloadFails(p)
         => /\ metrics' = WithMetric(metrics, "predictor_loading_error", 1)
            /\ ~initialized']_vars

LoadFails(p) == rcall[p].pc = "loading" /\ rcall'[p].pc = "load_err_metric"

LoadRaises(p) == rcall[p].pc = "load_err_metric" /\ rcall'[p].pc # "load_err_metric"

\* C26 (SpecRuntime): load failure surfacing. When the underlying load raises, the
\* call writes no PREDICTOR_LOADING_LATENCY row and exactly one
\* PREDICTOR_LOADING_ERROR row of value 1, then raises; the runtime is left not
\* loaded with load_lock released by the failed call, and a forward that starts on
\* the unloaded runtime goes through the load again.
C26_LoadFailure ==
    /\ [][\A p \in Procs :
            /\ LoadFails(p) => (metrics' = metrics /\ ~loaded')
            /\ LoadRaises(p)
               => /\ rcall'[p].pc = "error"
                  /\ metrics' = WithMetric(metrics, "predictor_loading_error", 1)
                  /\ ~loaded'
                  /\ load_lock.holder = p
                  /\ load_lock' = Release(load_lock)
            /\ (Ended(p) /\ rcall'[p].op = "forward" /\ ~loaded
                /\ rcall'[p].pc \notin {"idle", "done", "error"})
               => rcall'[p].pc \in {"load_get", "load_wait"}]_vars
    /\ [](\A p \in Procs : rcall[p].pc = "load_err_metric"
                           => (~loaded /\ load_lock.holder = p))

C26_Witness ==
    /\ MetricCount("predictor_loading_error", 1) = 1
    /\ MetricCount("predictor_loading_latency", 0) = 0
    /\ ~loaded
    /\ \E p \in Procs : /\ rcall[p].op = "forward"
                        /\ rcall[p].pc = "loading"
                        /\ load_lock.holder = p

\* C27 (SpecShutdown): terminal state on shutdown. When cleanup_resources has
\* completed, every predictor runtime is not loaded and has no pending idle-unload
\* timer.
C27_ShutdownTerminal ==
    cleanup.pc = "done"
    => \A r \in Runtimes : ~runtimes[r].loaded /\ ~runtimes[r].timer

SelectionTypes == {SENTIMENT_PREDICTION_TYPE, NEWS_CLASSIFICATION_PREDICTION_TYPE}

\* C28 (SpecSelection): weighted selection support. A get_random_predictor call
\* fails with "No active predictors found" when the type has no active predictor;
\* otherwise it returns a member of the active list whose traffic_percentage is
\* positive, and every registered predictor of the type with positive
\* traffic_percentage is one of its possible results.
C28_WeightedSelection ==
    /\ pick # NoPick
       => LET active == FindPredictorsOfType(pick.prediction_type, TRUE)
          IN  IF Len(active) = 0
              THEN ~pick.ok /\ pick.error = "No active predictors found"
              ELSE /\ pick.ok
                   /\ \E i \in 1..Len(active) : active[i] = pick.predictor
                   /\ pick.predictor.traffic_percentage > 0
    /\ \A t \in SelectionTypes : \A row \in catalog :
          (row.prediction_type = t /\ row.traffic_percentage > 0)
          => [ok |-> TRUE, error |-> "none", predictor |-> row]
                \in GetRandomPredictor(FindPredictorsOfType(t, TRUE))

C28_Witness ==
    /\ pick.ok
    /\ pick.prediction_type = SENTIMENT_PREDICTION_TYPE
    /\ pick.predictor.predictor_version = 1
    /\ \E row \in catalog : /\ row.prediction_type = SENTIMENT_PREDICTION_TYPE
                            /\ row.predictor_version = 2
                            /\ row.traffic_percentage > pick.predictor.traffic_percentage

StartCall == lifecycle'.n = lifecycle.n + 1 /\ lifecycle'.call = "start"

StopAfterFailedStart ==
    /\ lifecycle.call = "start" /\ lifecycle.raised
    /\ lifecycle'.n = lifecycle.n + 1 /\ lifecycle'.call = "stop"

\* C29 (SpecBusStart): start() fails loudly. A start() call on a stopped bus whose
\* ping raises creates no consumer task and leaves the bus not running, and a
\* stop() call that follows changes nothing in the bus; a start() call whose ping
\* answers leaves the bus running with one consumer task, at its pop, for each
\* registered queue.
C29_StartFailsLoudly ==
    /\ [][StartCall
          => IF lifecycle'.raised
             THEN ~running' /\ tasks' = NoMap /\ UNCHANGED busVars
             ELSE /\ running'
                  /\ DOMAIN tasks' = DOMAIN queues
                  /\ \A q \in DOMAIN queues : tasks'[q] = [pc |-> "pop", batch |-> <<>>]]_vars
    /\ [][StopAfterFailedStart => (~running' /\ UNCHANGED busVars)]_vars

C29_Witness ==
    /\ lifecycle.call = "start"
    /\ lifecycle.raised
    /\ ~running
    /\ tasks = NoMap
    /\ Cardinality(DOMAIN queues) = 2

\* C30 (SpecPublish): publish failures are surfaced. When the caller of publish was
\* handed its normal return, the event was appended to the queue bound to its type.
C30_PublishFailureSurfaced ==
    publish_result = "None" => publish_task = "ok"

\* the metric rows a call has added to the collection
RowsAdded == metrics (-) epoch.met

\* C31 (SpecTraffic): traffic audit rows follow changes. When a call has completed,
\* a metric row was added for a predictor exactly when the call changed that
\* predictor's traffic percentage, and the row holds the new percentage.
C31_AuditRowsFollowChanges ==
    tcall[SerialCaller].pc = "done"
    => \A i \in 1..Len(predictors) :
          /\ (\E row \in BagToSet(RowsAdded) : row.version = predictors[i].version)
             <=> predictors[i].traffic # epoch.pred[i].traffic
          /\ \A row \in BagToSet(RowsAdded) :
                row.version = predictors[i].version => row.value = predictors[i].traffic

\* C38 (SpecTraffic): shift never lowers the newest predictor. When a
\* shift_newest_predictor_traffic call has completed, the traffic percentage of the
\* predictor that was the newest at the call is at least what it was.
C38_ShiftNeverLowers ==
    LET newest == GetNewestPredictor(epoch.pred)
    IN  (tcall[SerialCaller].pc = "done" /\ tcall[SerialCaller].op.kind = "shift" /\ newest # 0)
        => predictors[newest].traffic >= epoch.pred[newest].traffic

LoadStages == {"load_wait", "load_get", "loading", "load_metric", "load_err_metric"}

\* the call of p is made in this step
CallMade(p, op) == Ended(p) /\ rstarted' = rstarted + 1 /\ rcall'[p].op = op /\ rcall'[p] # rcall[p]

\* C32 (SpecRuntime): lifecycle ordering. No task is inside load_predictor, and no
\* underlying load is running, unless setup() has completed; an underlying _forward
\* starts only on a runtime that is loaded by a load completed in the current load
\* cycle; forward() or load_predictor() on a runtime that is not initialised ends in
\* the error at once, without a download, a load, a metric or a change of the model.
C32_LifecycleOrdering ==
    /\ [](\A t \in Tasks : rcall[t].pc \in LoadStages \cup {"forwarding"} => initialized)
    /\ [][\A p \in Procs :
            /\ (~Forwarding(p) /\ rcall'[p].pc = "forwarding")
               => (initialized /\ loaded' /\ cycleLoads' >= 1)
            /\ ((CallMade(p, "forward") \/ CallMade(p, "load")) /\ ~initialized)
               => /\ rcall'[p].pc = "error"
                  /\ UNCHANGED <<nDownload, cycleLoads, loaded, model, metrics, load_lock,
                                 initialized, weights>>]_vars

C32_Witness ==
    /\ ~initialized
    /\ nDownload = 0
    /\ \E p \in Procs : rcall[p].op = "forward" /\ rcall[p].pc = "error"
    /\ \E p \in Procs : rcall[p].op = "load" /\ rcall[p].pc = "error"

UnloadingRows(m) ==
    CopiesIn(RuntimeRow("predictor_unloading_error", 1), m)
    + CopiesIn(RuntimeRow("predictor_unloading_latency", 0), m)

ForwardSucceeds(p) == rcall[p].pc = "fwd_metrics" /\ rcall'[p].pc = "done"

\* a step of a caller ends the pending idle-unload task
CancelStep ==
    /\ UnloadTaskPending(rcall)
    /\ \E p \in Procs : rcall'[p] # rcall[p]
    /\ \/ rcall'[IdleTask].pc = "done"
       \/ \E p \in Procs : ForwardSucceeds(p)

\* C33 (SpecRuntime): idle-timer reset. At every moment at most one idle-unload task
\* is pending and not cancelled, and it is the one the runtime refers to; a forward
\* that succeeds leaves exactly one, at the start of its sleep; a step that cancels
\* the pending task writes no unloading metric and puts no call in error.
C33_IdleTimerReset ==
    /\ [](/\ unload_tasks \in {0, 1}
          /\ unload_tasks = 1 <=> UnloadTaskPending(rcall))
    /\ [][/\ \A p \in Procs :
               ForwardSucceeds(p) => (rcall'[IdleTask].pc = "sleep" /\ unload_tasks' = 1)
          /\ CancelStep
             => /\ UnloadingRows(metrics') = UnloadingRows(metrics)
                /\ load_lock'.holder # IdleTask
                /\ \A p \in Procs : rcall'[p].pc = "error" => rcall[p].pc = "error"]_vars

C33_Witness ==
    /\ unload_tasks = 1
    /\ rcall[IdleTask].pc = "sleep"
    /\ MetricCount("predictor_latency", 0) = 2
    /\ \E p \in Procs : Forwarding(p)
    /\ UnloadingRows(metrics) = 0

\* no caller is inside a call of the runtime
NoCallInProgress == \A p \in Procs : Ended(p)

\* C36 (SpecRuntime): a loaded runtime is on its way to being unloaded. Whenever
\* _loaded is set and no call is in progress, an idle-unload task that was not
\* cancelled is pending.
C36_LoadedHasIdleTask ==
    (loaded /\ NoCallInProgress) => (UnloadTaskPending(rcall) /\ unload_tasks = 1)

\* the tasks _process_prediction_type has created for the article at index a of the batch
TasksOfArticle(call, a) ==
    {x \in 1..Len(call.tasks) : call.tasks[x].article = call.articles[a]}

\* C37 (SpecArticles): exactly one selected predictor per article. For every
\* article of a batch for which _process_prediction_type has scheduled forwards,
\* exactly one of these forwards is marked as selected.
C37_OneSelectedPerArticle ==
    \A c \in 1..Len(pcalls) :
        Len(pcalls[c].tasks) > 0
        => \A a \in 1..Len(pcalls[c].articles) :
              Cardinality({x \in TasksOfArticle(pcalls[c], a) : pcalls[c].tasks[x].is_selected}) = 1

\* C39 (SpecBusConfig): a failed subscribe leaves the bus unchanged. A subscribe
\* call that raises leaves the bindings of event types to queues and the handler
\* lists as they were before the call.
C39_FailedSubscribeChangesNothing ==
    [][subscribe_result'.raised => UNCHANGED <<handlers, event_to_queue>>]_vars

\* the popped item is an event that some subscribed handler is to receive
Deliverable(item) ==
    /\ ~JSONDecodeError(item)
    /\ ~ValidationError(JsonLoads(item))
    /\ item.event_type \in DOMAIN handlers

\* C35 (SpecBus): no silent loss while running. A consumer gives up the events it
\* has popped and accumulated only by passing them on to process_event_batch, also
\* when a later pop of the same batch fails with a broker error; and the consumer
\* loop is never ended by a broker error.
C35_NoLossOnBrokerError ==
    /\ [][\A q \in DOMAIN tasks :
            (/\ \E i \in 1..Len(tasks[q].batch) : Deliverable(tasks[q].batch[i])
             /\ tasks'[q].batch # tasks[q].batch)
            => IsPrefix(hist.flushed \o tasks[q].batch, hist'.flushed)]_vars
    /\ [](\A q \in DOMAIN tasks : tasks[q].pc \in {"pop", "handling", "backoff"})

StopCalled == running /\ ~running'
StopHasReturned == stopping /\ ~stopping'
Stopped == ~running /\ ~stopping

\* C34 (SpecBusStop): stop(). On a running bus stop() clears the running flag and
\* cancels every consumer task; it returns only when all of them have ended, with the
\* task table empty; once it has returned no item is popped from the broker, no
\* handler call is started and the table stays empty; stop() on a bus that is not
\* running changes nothing of the bus.
C34_StopQuiesces ==
    /\ [][/\ StopCalled
             => /\ DOMAIN tasks' = DOMAIN tasks
                /\ \A q \in DOMAIN tasks : tasks'[q].pc = "ended"
          /\ StopHasReturned
             => /\ \A q \in DOMAIN tasks : tasks[q].pc = "ended"
                /\ tasks' = NoMap
                /\ ~running'
          /\ Stopped
             => /\ hist'.popped = hist.popped
                /\ \A q \in QueueNames : Len(broker'[q]) >= Len(broker[q])
                /\ Len(invocations') = Len(invocations)
                /\ Stopped'
          /\ (Stopped /\ lifecycle'.call = "stop" /\ lifecycle' # lifecycle)
             => UNCHANGED busVars]_vars
    /\ [](Stopped => tasks = NoMap)

C34_Witness ==
    /\ Stopped
    /\ lifecycle.call = "stop"
    /\ hist.popped > 0
    /\ broker[QUEUE_ARTICLES] # <<>>
    /\ \E i \in 1..Len(invocations) : invocations[i].status = "cancelled"

\* the consumer tasks of queue q that are alive
LiveConsumers(q) == orphans[q] + (IF LiveInTable(q) THEN 1 ELSE 0)

\* C40 (SpecBusRestart): one consumer per queue. After any sequence of start() and
\* stop() calls, start() on a running bus included, every registered queue has at
\* most one live consumer task, and every live consumer task is the one the task
\* table holds for its queue.
C40_OneConsumerPerQueue ==
    \A q \in ConfigQueues :
        /\ LiveConsumers(q) <= 1
        /\ orphans[q] = 0
====
